---- MODULE Spec2Model ----
(***************************************************************************)
(* Model of the tariff reconciliation engine of excel_app/utils.py:        *)
(* normalisation helpers, translator loading, per-payer extraction, the    *)
(* cross-period differ, the output record builder and the orchestrator     *)
(* procesar_excel_maestro_django.                                          *)
(*                                                                         *)
(* Text is a sequence of one-character strings (the tokens "a'" and "A'"   *)
(* stand for the accented letters a-acute and A-acute).  An amount is a    *)
(* fixed-point number [ent, mil]: whole units and thousandths.             *)
(***************************************************************************)
EXTENDS Integers, Sequences, FiniteSets, TLC

(***************************************************************************)
(* Generic helpers on sequences and sets                                   *)
(***************************************************************************)
Range(s) == {s[i] : i \in DOMAIN s}

\* the non-empty sequences over S of length at most n
SeqsUpTo(S, n) == UNION {[1..k -> S] : k \in 1..n}

Abs(n) == IF n < 0 THEN -n ELSE n

(***************************************************************************)
(* Text primitives used by str.strip, str.upper, unicodedata and float     *)
(***************************************************************************)
EsEspacio(c) == c = " "

Mayus(c) ==
  CASE c = "a" -> "A"
    [] c = "b" -> "B"
    [] c = "n" -> "N"
    [] c = "a'" -> "A'"
    [] OTHER -> c

\* unicodedata.normalize("NFD") followed by dropping category Mn
SinAcento(c) ==
  CASE c = "A'" -> "A"
    [] c = "a'" -> "a"
    [] OTHER -> c

EsDigito(c) == c \in {"0", "1", "2", "3", "4", "5", "6", "7", "8", "9"}

ValorDigito(c) ==
  CASE c = "0" -> 0 [] c = "1" -> 1 [] c = "2" -> 2 [] c = "3" -> 3
    [] c = "4" -> 4 [] c = "5" -> 5 [] c = "6" -> 6 [] c = "7" -> 7
    [] c = "8" -> 8 [] c = "9" -> 9 [] OTHER -> 0

CharDigito(d) == <<"0", "1", "2", "3", "4", "5", "6", "7", "8", "9">>[d + 1]

EsAlnum(c) == EsDigito(c) \/ c \in {"A", "B", "N", "O", "S", "a", "b", "n", "a'", "A'"}

RECURSIVE LStrip(_)
LStrip(s) == IF s # <<>> /\ EsEspacio(Head(s)) THEN LStrip(Tail(s)) ELSE s

RECURSIVE RStrip(_)
RStrip(s) ==
  IF s # <<>> /\ EsEspacio(s[Len(s)]) THEN RStrip(SubSeq(s, 1, Len(s) - 1)) ELSE s

\* str.strip()
Strip(s) == RStrip(LStrip(s))

\* str.replace(c, "")
Quitar(s, c) == SelectSeq(s, LAMBDA x : x # c)

\* str.replace(c, d) for single characters
Reemplazar(s, c, d) == [i \in DOMAIN s |-> IF s[i] = c THEN d ELSE s[i]]

\* str.count(c)
Contar(s, c) == Cardinality({i \in DOMAIN s : s[i] = c})

\* " ".join(s.split()): whitespace runs collapse to one space, ends trimmed
RECURSIVE Colapsar(_)
Colapsar(s) ==
  IF s = <<>> THEN <<>>
  ELSE IF EsEspacio(Head(s))
       THEN LET r == LStrip(s)
            IN IF r = <<>> THEN <<>> ELSE <<" ">> \o Colapsar(r)
       ELSE <<Head(s)>> \o Colapsar(Tail(s))

normalizar_texto(s) ==
  LET up == [i \in DOMAIN Strip(s) |-> Mayus(Strip(s)[i])]
      sa == [i \in DOMAIN up |-> SinAcento(up[i])]
  IN Colapsar(LStrip(sa))

(***************************************************************************)
(* float(s) and int(float(s)) on the decimal grammar [-]digits[.digits]    *)
(***************************************************************************)
TodosDigitos(s) == \A i \in DOMAIN s : EsDigito(s[i])

RECURSIVE ValorDigitos(_)
ValorDigitos(s) ==
  IF s = <<>> THEN 0 ELSE 10 * ValorDigitos(SubSeq(s, 1, Len(s) - 1)) + ValorDigito(s[Len(s)])

PosPunto(s) == IF \E i \in DOMAIN s : s[i] = "." THEN CHOOSE i \in DOMAIN s : s[i] = "." ELSE 0

\* the thousandths denoted by the digits after the decimal point
Milesimas(f) ==
  LET f3 == SubSeq(f \o <<"0", "0", "0">>, 1, 3) IN ValorDigitos(f3)

\* float(s): [ok, neg, ent, mil]; ok = FALSE when float() raises or yields nan
ParseFloat(s) ==
  LET neg  == s # <<>> /\ Head(s) = "-"
      body == IF neg THEN Tail(s) ELSE s
      p    == PosPunto(body)
      ip   == IF p = 0 THEN body ELSE SubSeq(body, 1, p - 1)
      fp   == IF p = 0 THEN <<>> ELSE SubSeq(body, p + 1, Len(body))
      ok   == /\ TodosDigitos(ip) /\ TodosDigitos(fp)
              /\ Len(ip) + Len(fp) > 0
  IN IF ok THEN [ok |-> TRUE, neg |-> neg, ent |-> ValorDigitos(ip), mil |-> Milesimas(fp)]
     ELSE [ok |-> FALSE, neg |-> FALSE, ent |-> 0, mil |-> 0]

\* str(n) for a natural number
RECURSIVE StrNat(_)
StrNat(n) == IF n < 10 THEN <<CharDigito(n)>> ELSE StrNat(n \div 10) \o <<CharDigito(n % 10)>>

RECURSIVE ZFill(_, _)
ZFill(s, w) == IF Len(s) >= w THEN s ELSE ZFill(<<"0">> \o s, w)

AnchoCodigo == 8

\* str(int(float(cod))).zfill(8)
FormatoCodigo(cod) == ZFill(StrNat(ParseFloat(cod).ent), AnchoCodigo)

(***************************************************************************)
(* Amounts                                                                 *)
(***************************************************************************)
Cero == [ent |-> 0, mil |-> 0]

Positivo(v) == v.ent > 0 \/ v.mil > 0

Menor(a, b) == a.ent < b.ent \/ (a.ent = b.ent /\ a.mil < b.mil)

TolMilesimas == 10

\* abs(a - b) > 0.01
ExcedeTolerancia(a, b) ==
  LET d == a.ent - b.ent
  IN IF d > 1 \/ d < -1 THEN TRUE
     ELSE Abs(d * 1000 + a.mil - b.mil) > TolMilesimas

NaN == <<"n", "a", "n">>

limpiar_importe_raw(v) ==
  IF v = NaN THEN Cero
  ELSE LET s0 == Quitar(Quitar(Strip(v), "$"), " ")
           s  == IF Contar(s0, ",") = 1 /\ Contar(s0, ".") >= 1
                 THEN Reemplazar(Quitar(s0, "."), ",", ".")
                 ELSE Quitar(s0, ",")
           f  == ParseFloat(s)
       IN IF f.ok /\ ~f.neg /\ (f.ent > 0 \/ f.mil > 0)
          THEN [ent |-> f.ent, mil |-> f.mil]
          ELSE Cero

CodigosNulos == {<<>>, <<"0">>, <<"0", "0", "0", "0", "0", "0", "0", "0">>,
                 NaN, <<"#", "N", "/", "A">>, <<"N", "/", "A">>}

\* mutant: a token that truncates to zero is accepted
validar_codigo_NoEstricto(cod) ==
  LET cod_str == Strip(cod)
      f == ParseFloat(cod_str)
  IN IF cod_str \in CodigosNulos THEN FALSE
     ELSE f.ok /\ ~f.neg

validar_codigo(cod) ==
  LET cod_str == Strip(cod)
      f == ParseFloat(cod_str)
  IN IF cod_str \in CodigosNulos THEN FALSE
     ELSE f.ok /\ ~f.neg /\ f.ent > 0

(***************************************************************************)
(* Translator: rows are [concepto, cod_os, cod_desde, cod_hasta] cell texts *)
(***************************************************************************)
CodOsNulos == {NaN, <<"#", "N", "/", "A">>, <<"N", "/", "A">>, <<>>}

\* the two entries a valid row supplies
EntradaPorConcepto(fila) ==
  [cod_os |-> Strip(fila.cod_os),
   cod_desde |-> FormatoCodigo(Strip(fila.cod_desde)),
   cod_hasta |-> FormatoCodigo(Strip(fila.cod_hasta))]

EntradaPorCodigo(fila) ==
  [concepto |-> normalizar_texto(fila.concepto),
   cod_desde |-> FormatoCodigo(Strip(fila.cod_desde)),
   cod_hasta |-> FormatoCodigo(Strip(fila.cod_hasta))]

\* mutant: the range of the row is not validated
CargarFila_SinValidar(t, fila) ==
  [por_concepto |-> IF normalizar_texto(fila.concepto) # <<>>
                    THEN (normalizar_texto(fila.concepto) :> EntradaPorConcepto(fila))
                           @@ t.por_concepto
                    ELSE t.por_concepto,
   por_cod_os   |-> IF Strip(fila.cod_os) \notin CodOsNulos
                    THEN (Strip(fila.cod_os) :> EntradaPorCodigo(fila)) @@ t.por_cod_os
                    ELSE t.por_cod_os]

\* mutant: an existing key keeps the entry of the first row
CargarFila_PrimeroGana(t, fila) ==
  IF ~validar_codigo(Strip(fila.cod_desde)) \/ ~validar_codigo(Strip(fila.cod_hasta)) THEN t
  ELSE [por_concepto |-> IF normalizar_texto(fila.concepto) # <<>>
                         THEN t.por_concepto
                                @@ (normalizar_texto(fila.concepto) :> EntradaPorConcepto(fila))
                         ELSE t.por_concepto,
        por_cod_os   |-> IF Strip(fila.cod_os) \notin CodOsNulos
                         THEN t.por_cod_os @@ (Strip(fila.cod_os) :> EntradaPorCodigo(fila))
                         ELSE t.por_cod_os]

\* one iteration of the loop of cargar_traductor over the pair of indices t
CargarFila(t, fila) ==
  LET concepto  == normalizar_texto(fila.concepto)
      cod_os    == Strip(fila.cod_os)
      cod_desde == Strip(fila.cod_desde)
      cod_hasta == Strip(fila.cod_hasta)
  IN IF ~validar_codigo(cod_desde) \/ ~validar_codigo(cod_hasta) THEN t
     ELSE LET d == FormatoCodigo(cod_desde)
              h == FormatoCodigo(cod_hasta)
              pc == IF concepto # <<>>
                    THEN (concepto :> [cod_os |-> cod_os, cod_desde |-> d, cod_hasta |-> h])
                         @@ t.por_concepto
                    ELSE t.por_concepto
              po == IF cod_os \notin CodOsNulos
                    THEN (cod_os :> [concepto |-> concepto, cod_desde |-> d, cod_hasta |-> h])
                         @@ t.por_cod_os
                    ELSE t.por_cod_os
          IN [por_concepto |-> pc, por_cod_os |-> po]

RECURSIVE CargarFilas(_, _)
CargarFilas(t, filas) ==
  IF filas = <<>> THEN t ELSE CargarFilas(CargarFila(t, Head(filas)), Tail(filas))

\* the two dictionaries built by cargar_traductor from the rows of the table
cargar_traductor(filas) ==
  CargarFilas([por_concepto |-> <<>>, por_cod_os |-> <<>>], filas)

\* mutant: the load fails as soon as byConcept is empty
SinDatos_SoloConcepto(t) == t.por_concepto = <<>>

\* len(traductor_por_concepto) == 0 and len(traductor_por_cod_os) == 0
SinDatos(t) == t.por_concepto = <<>> /\ t.por_cod_os = <<>>

FalloCarga(mensaje) == [error |-> mensaje, por_concepto |-> <<>>, por_cod_os |-> <<>>]

\* cargar_traductor on a path: leido is what the file gives, [estado, tabla];
\* error is "" when the two indices are returned
cargar_traductor_ruta(leido) ==
  IF leido.estado = "no_existe" THEN FalloCarga("FileNotFoundError: traductor")
  ELSE IF leido.estado = "ilegible" THEN FalloCarga("ValueError: traductor ilegible")
  ELSE IF leido.estado = "vacio" \/ leido.tabla = <<>>
       THEN FalloCarga("ValueError: traductor vacio")
  ELSE LET t == cargar_traductor(leido.tabla)
       IN IF SinDatos(t) THEN FalloCarga("ValueError: traductor sin datos validos")
          ELSE [error |-> "", por_concepto |-> t.por_concepto, por_cod_os |-> t.por_cod_os]

\* mutant: the payer code is looked up before the concept
buscar_PrimeroCodigo(concepto, cod_os, traductor_concepto, traductor_cod_os) ==
  LET concepto_normalizado == normalizar_texto(concepto)
      cod_os_str == Strip(cod_os)
  IN IF cod_os_str \in DOMAIN traductor_cod_os
     THEN [hallado |-> TRUE,
           cod_desde |-> traductor_cod_os[cod_os_str].cod_desde,
           cod_hasta |-> traductor_cod_os[cod_os_str].cod_hasta]
     ELSE IF concepto_normalizado \in DOMAIN traductor_concepto
     THEN [hallado |-> TRUE,
           cod_desde |-> traductor_concepto[concepto_normalizado].cod_desde,
           cod_hasta |-> traductor_concepto[concepto_normalizado].cod_hasta]
     ELSE [hallado |-> FALSE, cod_desde |-> <<>>, cod_hasta |-> <<>>]

buscar_en_traductor(concepto, cod_os, traductor_concepto, traductor_cod_os) ==
  LET concepto_normalizado == normalizar_texto(concepto)
      cod_os_str == Strip(cod_os)
  IN IF concepto_normalizado \in DOMAIN traductor_concepto
     THEN [hallado |-> TRUE,
           cod_desde |-> traductor_concepto[concepto_normalizado].cod_desde,
           cod_hasta |-> traductor_concepto[concepto_normalizado].cod_hasta]
     ELSE IF cod_os_str \in DOMAIN traductor_cod_os
     THEN [hallado |-> TRUE,
           cod_desde |-> traductor_cod_os[cod_os_str].cod_desde,
           cod_hasta |-> traductor_cod_os[cod_os_str].cod_hasta]
     ELSE [hallado |-> FALSE, cod_desde |-> <<>>, cod_hasta |-> <<>>]

(***************************************************************************)
(* Python dict with insertion order: a sequence of records with unique     *)
(* clave; assigning an existing key keeps its position.                    *)
(***************************************************************************)
Claves(d) == {d[i].clave : i \in DOMAIN d}

\* mutant: an existing key keeps its first value
DictPut_PrimeroGana(d, rec) == IF rec.clave \in Claves(d) THEN d ELSE Append(d, rec)

DictPut(d, rec) ==
  IF rec.clave \in Claves(d)
  THEN [i \in DOMAIN d |-> IF d[i].clave = rec.clave THEN rec ELSE d[i]]
  ELSE Append(d, rec)

DictGet(d, k) == d[CHOOSE i \in DOMAIN d : d[i].clave = k]

\* dict.update(other)
RECURSIVE DictUpdate(_, _)
DictUpdate(d, other) ==
  IF other = <<>> THEN d ELSE DictUpdate(DictPut(d, Head(other)), Tail(other))

(***************************************************************************)
(* Snapshot: [obras: sequence of payer column names,                       *)
(*            filas: sequence of [cod_os, concepto, valores: column->cell]]*)
(***************************************************************************)
Columnas(df) == Range(df.obras)

\* one iteration of the loop of procesar_maestro_individual
ProcesarFila(datos_obra, fila, obra_col, traductor_concepto, traductor_cod_os) ==
  LET cod_os   == Strip(fila.cod_os)
      concepto == Strip(fila.concepto)
      valor    == limpiar_importe_raw(fila.valores[obra_col])
      resultado == buscar_en_traductor(concepto, cod_os, traductor_concepto, traductor_cod_os)
  IN IF ~Positivo(valor) THEN datos_obra
     ELSE IF ~resultado.hallado THEN datos_obra
     ELSE IF ~validar_codigo(resultado.cod_desde) \/ ~validar_codigo(resultado.cod_hasta)
          THEN datos_obra
     ELSE DictPut(datos_obra,
                  [clave |-> normalizar_texto(concepto) \o <<"_">> \o cod_os,
                   concepto_original |-> concepto,
                   cod_os |-> cod_os,
                   cod_desde |-> resultado.cod_desde,
                   cod_hasta |-> resultado.cod_hasta,
                   valor |-> valor])

RECURSIVE ProcesarFilas(_, _, _, _, _)
ProcesarFilas(datos_obra, filas, obra_col, traductor_concepto, traductor_cod_os) ==
  IF filas = <<>> THEN datos_obra
  ELSE ProcesarFilas(
         ProcesarFila(datos_obra, Head(filas), obra_col, traductor_concepto, traductor_cod_os),
         Tail(filas), obra_col, traductor_concepto, traductor_cod_os)

procesar_maestro_individual(df, obra_col, traductor_concepto, traductor_cod_os) ==
  IF obra_col \notin Columnas(df) THEN <<>>
  ELSE ProcesarFilas(<<>>, df.filas, obra_col, traductor_concepto, traductor_cod_os)

(***************************************************************************)
(* Cross-period differ                                                     *)
(***************************************************************************)
\* {v["cod_os"]: v["concepto_original"] for v in datos.values()}
CodosAConcepto(datos) ==
  [c \in {datos[i].cod_os : i \in DOMAIN datos} |->
     LET ult == CHOOSE i \in DOMAIN datos :
                  /\ datos[i].cod_os = c
                  /\ \A j \in DOMAIN datos : datos[j].cod_os = c => j <= i
     IN datos[ult].concepto_original]

\* dict.get(k): [presente, concepto]; truthiness of the value as Python tests it
Obtener(m, k) ==
  IF k \in DOMAIN m THEN [presente |-> TRUE, concepto |-> m[k]]
  ELSE [presente |-> FALSE, concepto |-> <<>>]

Verdadero(g) == g.presente /\ g.concepto # <<>>

\* mutant: a code present in both periods is always reported
EstadoCambio_SinIgualdad(concepto_antes, concepto_actual) ==
  IF Verdadero(concepto_antes) /\ Verdadero(concepto_actual) THEN "Modificado"
  ELSE IF Verdadero(concepto_antes) /\ ~Verdadero(concepto_actual) THEN "Eliminado"
  ELSE IF Verdadero(concepto_actual) /\ ~Verdadero(concepto_antes) THEN "Nuevo"
  ELSE ""

\* the state of one code, "" when the loop continues without a row
EstadoCambio(concepto_antes, concepto_actual) ==
  IF Verdadero(concepto_antes) /\ Verdadero(concepto_actual)
  THEN IF concepto_antes.concepto # concepto_actual.concepto THEN "Modificado" ELSE ""
  ELSE IF Verdadero(concepto_antes) /\ ~Verdadero(concepto_actual) THEN "Eliminado"
  ELSE IF Verdadero(concepto_actual) /\ ~Verdadero(concepto_antes) THEN "Nuevo"
  ELSE ""

\* the value of one payer column of a change row
ValorCambio(cod_os, concepto_actual, obra_col, df_actual) ==
  IF Verdadero(concepto_actual)
  THEN LET mask == {i \in DOMAIN df_actual.filas :
                      /\ df_actual.filas[i].cod_os = cod_os
                      /\ df_actual.filas[i].concepto = concepto_actual.concepto}
       IN IF mask # {} /\ obra_col \in Columnas(df_actual)
          THEN [tipo |-> "importe",
                valor |-> limpiar_importe_raw(
                            df_actual.filas[CHOOSE i \in mask : \A j \in mask : i <= j]
                              .valores[obra_col])]
          ELSE [tipo |-> "vacio", valor |-> Cero]
  ELSE [tipo |-> "Eliminado", valor |-> Cero]

\* the rows of the change log before the duplicate marking (a set: the loop
\* iterates a Python set of codes, so the order of the rows is not fixed)
FilasCambios(datos_actual, datos_anterior, obras_cols, df_actual) ==
  LET codos_a_concepto_anterior == CodosAConcepto(datos_anterior)
      codos_a_concepto_actual   == CodosAConcepto(datos_actual)
      codos_todos == DOMAIN codos_a_concepto_anterior \cup DOMAIN codos_a_concepto_actual
      Fila(cod_os) ==
        LET concepto_antes  == Obtener(codos_a_concepto_anterior, cod_os)
            concepto_actual == Obtener(codos_a_concepto_actual, cod_os)
        IN [cod_os_antes    |-> IF Verdadero(concepto_antes) THEN cod_os ELSE <<>>,
            cod_os_actual   |-> IF Verdadero(concepto_actual) THEN cod_os ELSE <<>>,
            concepto_antes  |-> IF Verdadero(concepto_antes) THEN concepto_antes.concepto ELSE <<>>,
            concepto_actual |-> IF Verdadero(concepto_actual) THEN concepto_actual.concepto ELSE <<>>,
            estado          |-> EstadoCambio(concepto_antes, concepto_actual),
            valores         |-> [o \in Range(obras_cols) |->
                                   ValorCambio(cod_os, concepto_actual, o, df_actual)]]
  IN {f \in {Fila(c) : c \in codos_todos} : f.estado # ""}

\* mutant: an entry is marked only when the entry that shares its pair is the
\* one of payer code 1
comparar_MarcaUnica(datos_actual, datos_anterior, obras_cols, df_actual, df_anterior) ==
  LET filas == FilasCambios(datos_actual, datos_anterior, obras_cols, df_actual)
  IN {[cod_os_antes    |-> f.cod_os_antes,
       cod_os_actual   |-> f.cod_os_actual,
       concepto_antes  |-> f.concepto_antes,
       concepto_actual |-> f.concepto_actual,
       estado          |-> f.estado,
       valores         |-> f.valores,
       repetido        |-> IF \E g \in filas :
                                /\ g # f
                                /\ g.cod_os_actual = f.cod_os_actual
                                /\ g.concepto_actual = f.concepto_actual
                                /\ g.cod_os_antes = <<"1">>
                           THEN "Repetido" ELSE ""] : f \in filas}

\* mutant: every entry is marked as soon as the log holds two entries
comparar_MarcaTodo(datos_actual, datos_anterior, obras_cols, df_actual, df_anterior) ==
  LET filas == FilasCambios(datos_actual, datos_anterior, obras_cols, df_actual)
  IN {[cod_os_antes    |-> f.cod_os_antes,
       cod_os_actual   |-> f.cod_os_actual,
       concepto_antes  |-> f.concepto_antes,
       concepto_actual |-> f.concepto_actual,
       estado          |-> f.estado,
       valores         |-> f.valores,
       repetido        |-> IF \E g \in filas : g # f THEN "Repetido" ELSE ""] : f \in filas}

comparar_maestros_global(datos_actual, datos_anterior, obras_cols, df_actual, df_anterior) ==
  LET filas == FilasCambios(datos_actual, datos_anterior, obras_cols, df_actual)
      Duplicada(f) == \E g \in filas :
                        /\ g # f
                        /\ g.cod_os_actual = f.cod_os_actual
                        /\ g.concepto_actual = f.concepto_actual
  IN {[cod_os_antes    |-> f.cod_os_antes,
       cod_os_actual   |-> f.cod_os_actual,
       concepto_antes  |-> f.concepto_antes,
       concepto_actual |-> f.concepto_actual,
       estado          |-> f.estado,
       valores         |-> f.valores,
       repetido        |-> IF Duplicada(f) THEN "Repetido" ELSE ""] : f \in filas}

\* mutant: only the key sets are compared, the amounts are not
CambiosEnObra_SoloClaves(obra_col, df_actual, df_anterior, traductor_concepto, traductor_cod_os) ==
  Claves(procesar_maestro_individual(df_actual, obra_col, traductor_concepto, traductor_cod_os))
    # Claves(procesar_maestro_individual(df_anterior, obra_col, traductor_concepto,
                                         traductor_cod_os))

\* the comparison of one payer column inside detectar_obras_sociales_con_cambios
CambiosEnObra(obra_col, df_actual, df_anterior, traductor_concepto, traductor_cod_os) ==
  LET datos_obra_actual ==
        procesar_maestro_individual(df_actual, obra_col, traductor_concepto, traductor_cod_os)
      datos_obra_anterior ==
        procesar_maestro_individual(df_anterior, obra_col, traductor_concepto, traductor_cod_os)
      claves_actual   == Claves(datos_obra_actual)
      claves_anterior == Claves(datos_obra_anterior)
  IN IF claves_actual # claves_anterior THEN TRUE
     ELSE \E clave \in claves_actual :
            /\ clave \in claves_anterior
            /\ ExcedeTolerancia(DictGet(datos_obra_actual, clave).valor,
                                DictGet(datos_obra_anterior, clave).valor)

\* mutant: no full regeneration when there are no previous records
detectar_sin_atajo(datos_actual, datos_anterior, obras_cols, df_actual, df_anterior, traductor_concepto, traductor_cod_os) ==
  {obra_col \in Range(obras_cols) :
     \/ obra_col \notin Columnas(df_anterior)
     \/ CambiosEnObra(obra_col, df_actual, df_anterior, traductor_concepto, traductor_cod_os)}

detectar_obras_sociales_con_cambios(datos_actual, datos_anterior, obras_cols, df_actual, df_anterior, traductor_concepto, traductor_cod_os) ==
  IF datos_anterior = <<>> THEN Range(obras_cols)
  ELSE {obra_col \in Range(obras_cols) :
          \/ obra_col \notin Columnas(df_anterior)
          \/ CambiosEnObra(obra_col, df_actual, df_anterior,
                           traductor_concepto, traductor_cod_os)}

(***************************************************************************)
(* The extraction loop of the orchestrator over all payer columns          *)
(***************************************************************************)
RECURSIVE AcumularDatos(_, _, _, _, _)
AcumularDatos(total, df, obras, traductor_concepto, traductor_cod_os) ==
  IF obras = <<>> THEN total
  ELSE AcumularDatos(
         DictUpdate(total, procesar_maestro_individual(df, Head(obras),
                                                       traductor_concepto, traductor_cod_os)),
         df, Tail(obras), traductor_concepto, traductor_cod_os)

(***************************************************************************)
(* Output record builder                                                   *)
(***************************************************************************)
UmbralM == 14000000
UmbralCMin == 40000000
UmbralCMax == 44000000
RangoEspecialMin == 42000000
RangoEspecialMax == 43000000

\* mutant: the upper threshold is compared on whole units only
determinar_tipo_SinMilesimas(valor) ==
  IF valor.ent < UmbralM THEN "M"
  ELSE IF valor.ent >= UmbralCMin /\ valor.ent <= UmbralCMax THEN "C"
  ELSE "V"

determinar_tipo(valor) ==
  IF valor.ent < UmbralM THEN "M"
  ELSE IF /\ valor.ent >= UmbralCMin
          /\ (valor.ent < UmbralCMax \/ (valor.ent = UmbralCMax /\ valor.mil = 0))
       THEN "C"
  ELSE "V"

\* int(float(cod)) if cod else 0; float() ignores surrounding white space
EnteroDe(cod) ==
  IF cod = <<>> THEN 0
  ELSE IF ParseFloat(Strip(cod)).neg THEN 0 - ParseFloat(Strip(cod)).ent
  ELSE ParseFloat(Strip(cod)).ent

\* float(cod) raises
NoConvertible(cod) == cod # <<>> /\ ~ParseFloat(Strip(cod)).ok

\* mutant: the type decides before the special range is looked at
determinar_concepto_TipoPrimero(cod_desde, cod_hasta, tipo_calculado) ==
  IF NoConvertible(cod_desde) \/ NoConvertible(cod_hasta) THEN 4
  ELSE IF tipo_calculado = "M" THEN 4
  ELSE IF tipo_calculado = "V" THEN 1
  ELSE IF \/ (RangoEspecialMin <= EnteroDe(cod_desde) /\ EnteroDe(cod_desde) <= RangoEspecialMax)
          \/ (RangoEspecialMin <= EnteroDe(cod_hasta) /\ EnteroDe(cod_hasta) <= RangoEspecialMax)
       THEN 1
  ELSE 4

determinar_concepto(cod_desde, cod_hasta, tipo_calculado) ==
  IF NoConvertible(cod_desde) \/ NoConvertible(cod_hasta)
  THEN 4
  ELSE IF \/ (RangoEspecialMin <= EnteroDe(cod_desde) /\ EnteroDe(cod_desde) <= RangoEspecialMax)
          \/ (RangoEspecialMin <= EnteroDe(cod_hasta) /\ EnteroDe(cod_hasta) <= RangoEspecialMax)
       THEN 1
  ELSE IF tipo_calculado = "M" THEN 4
  ELSE IF tipo_calculado = "V" THEN 1
  ELSE 4

\* the dictionary appended to datos_finales for one extracted record
RegistroFinal(data) ==
  LET tipo == determinar_tipo(data.valor)
      concepto_num == determinar_concepto(data.cod_desde, data.cod_hasta, tipo)
  IN [nom_id   |-> <<"1">>,
      coddesde |-> IF validar_codigo(data.cod_desde) THEN FormatoCodigo(data.cod_desde) ELSE <<>>,
      codhasta |-> IF validar_codigo(data.cod_hasta) THEN FormatoCodigo(data.cod_hasta) ELSE <<>>,
      concepto |-> StrNat(concepto_num),
      importe  |-> data.valor,
      tipo     |-> tipo,
      pre_matp |-> <<"0">>,
      area     |-> <<"D">>]

DatosFinales(datos_actual) == [i \in DOMAIN datos_actual |-> RegistroFinal(datos_actual[i])]

\* drop_duplicates(subset=["coddesde", "codhasta"], keep="first")
DropDuplicates(regs) ==
  LET Primero(i) == \A j \in 1..(i - 1) :
                      <<regs[j].coddesde, regs[j].codhasta>> # <<regs[i].coddesde, regs[i].codhasta>>
      F[i \in 0..Len(regs)] ==
        IF i = 0 THEN <<>>
        ELSE IF Primero(i) THEN Append(F[i - 1], regs[i]) ELSE F[i - 1]
  IN F[Len(regs)]

Mes == <<"2025-09">>

\* the archive entry name of one payer column
NombreArchivo(obra_col) ==
  SelectSeq(normalizar_texto(obra_col), LAMBDA c : EsAlnum(c) \/ c \in {"-", "_"})
    \o <<"_">> \o Mes \o <<".xlsx">>

NombreCambios == <<"cambios_global_">> \o Mes \o <<".xlsx">>

\* bytes of a closed archive: the end-of-central-directory record plus, for
\* every entry, at least its two headers and its name
TamZipVacio == 22
TamMinEntrada == 102
TamZip(entradas) == TamZipVacio + Len(entradas) * TamMinEntrada

MinBytesZip == 100

(***************************************************************************)
(* State                                                                   *)
(***************************************************************************)
VARIABLES
  pc,                     \* position of the run
  traductor_concepto,     \* byConcept index
  traductor_cod_os,       \* byPayerCode index
  df_actual,              \* current snapshot
  df_anterior,            \* previous snapshot (meaningful when hay_anterior)
  hay_anterior,           \* df_anterior is not None
  datos_actual_total,     \* records accumulated over the payer columns, current
  datos_anterior_total,   \* the same for the previous snapshot
  df_cambios_global,      \* the change log
  obras_a_procesar,       \* the payer columns selected for regeneration
  tiene_maestro_anterior, \* a non-empty previous snapshot was read
  info,                   \* the summary
  temp_files,             \* files the finally block removes
  cambios_temp_path,      \* TRUE once the change-log path is set
  zf,                     \* entries written into the archive, in order
  pendientes,             \* payer columns the packaging loop has not reached
  archivos_agregados,     \* counter of the packaging loop
  disco,                  \* files present in the output directory
  ruta_traductor,         \* where the translator comes from, "" before it is chosen
  retorno,                \* TRUE once the return statement was reached
  entrada,                \* the arguments of a function called on its own
  salida,                 \* what that call returned
  error,                  \* the exception being propagated, "" if none
  corridas,               \* the state of each of two runs that overlap in time
  output_dir              \* the files of the output directory those two runs share

vars_diff == <<traductor_concepto, traductor_cod_os, df_actual, df_anterior, hay_anterior,
               datos_actual_total, datos_anterior_total, df_cambios_global, obras_a_procesar>>

vars_run == <<tiene_maestro_anterior, info, temp_files, cambios_temp_path, zf, pendientes,
              archivos_agregados, disco, ruta_traductor, retorno, error>>

vars_fn == <<entrada, salida>>

vars_dos == <<corridas, output_dir>>

vars == <<pc, vars_diff, vars_run, vars_fn, vars_dos>>

\* the summary as initialised before the processing starts
InfoInicial(traductor_usado) ==
  [archivos_generados     |-> 0,
   archivos_omitidos      |-> 0,
   cambios_detectados     |-> FALSE,
   excel_cambios_generado |-> FALSE,
   modo_procesamiento     |-> "completo",
   traductor_usado        |-> traductor_usado]

(***************************************************************************)
(* Input domains of the differ specification                               *)
(***************************************************************************)
MaxFilas == 2

OS1 == <<"O", "S", "1">>
OS2 == <<"O", "S", "2">>

Txt100 == <<"1", "0", "0">>
Txt200 == <<"2", "0", "0">>
Txt0   == <<"0">>

FilaMaestro(cod, concepto, v1, v2) ==
  [cod_os |-> cod, concepto |-> concepto, valores |-> (OS1 :> v1) @@ (OS2 :> v2)]

FilasDiff ==
  { FilaMaestro(<<"1">>, <<"A">>, Txt100, Txt100),
    FilaMaestro(<<"1">>, <<"A">>, Txt200, Txt100),
    FilaMaestro(<<"1">>, <<"A">>, Txt0, Txt0),
    FilaMaestro(<<"1">>, <<"a">>, Txt100, Txt0),
    FilaMaestro(<<"2">>, <<" ">>, Txt100, Txt0) }

FilaTraductor(concepto, cod, desde, hasta) ==
  [concepto |-> concepto, cod_os |-> cod, cod_desde |-> desde, cod_hasta |-> hasta]

TablaDiff ==
  << FilaTraductor(<<"A">>, <<"1">>, <<"1", "0", "0">>, <<"1", "9", "9">>),
     FilaTraductor(<<"B">>, <<"2">>, <<"2", "0", "0">>, <<"2", "9", "9">>) >>

TraductorDiff == cargar_traductor(TablaDiff)

MaestrosDiff == {[obras |-> <<OS1, OS2>>, filas |-> f] : f \in SeqsUpTo(FilasDiff, MaxFilas)}

InitDiff ==
  /\ pc = "diff_extraer"
  /\ traductor_concepto = TraductorDiff.por_concepto
  /\ traductor_cod_os = TraductorDiff.por_cod_os
  /\ df_actual \in MaestrosDiff
  /\ df_anterior \in MaestrosDiff
  /\ hay_anterior = TRUE
  /\ datos_actual_total = <<>>
  /\ datos_anterior_total = <<>>
  /\ df_cambios_global = {}
  /\ obras_a_procesar = {}
  /\ tiene_maestro_anterior = TRUE
  /\ info = InfoInicial("personalizado")
  /\ temp_files = {}
  /\ cambios_temp_path = FALSE
  /\ zf = <<>>
  /\ pendientes = {}
  /\ archivos_agregados = 0
  /\ disco = {}
  /\ ruta_traductor = "personalizado"
  /\ retorno = FALSE
  /\ error = ""
  /\ entrada = ""
  /\ salida = ""
  /\ corridas = <<>>
  /\ output_dir = <<>>

DiffExtraer ==
  /\ pc = "diff_extraer"
  /\ datos_actual_total' =
       AcumularDatos(<<>>, df_actual, df_actual.obras, traductor_concepto, traductor_cod_os)
  /\ datos_anterior_total' =
       AcumularDatos(<<>>, df_anterior, df_actual.obras, traductor_concepto, traductor_cod_os)
  /\ pc' = "diff_comparar"
  /\ UNCHANGED <<traductor_concepto, traductor_cod_os, df_actual, df_anterior, hay_anterior,
                 df_cambios_global, obras_a_procesar, vars_run, vars_fn, vars_dos>>

DiffComparar ==
  /\ pc = "diff_comparar"
  /\ df_cambios_global' = comparar_maestros_global(datos_actual_total, datos_anterior_total,
                                                   df_actual.obras, df_actual, df_anterior)
  /\ pc' = "diff_detectar"
  /\ UNCHANGED <<traductor_concepto, traductor_cod_os, df_actual, df_anterior, hay_anterior,
                 datos_actual_total, datos_anterior_total, obras_a_procesar, vars_run, vars_fn, vars_dos>>

DiffDetectar ==
  /\ pc = "diff_detectar"
  /\ obras_a_procesar' =
       detectar_obras_sociales_con_cambios(datos_actual_total, datos_anterior_total,
                                           df_actual.obras, df_actual, df_anterior,
                                           traductor_concepto, traductor_cod_os)
  /\ pc' = "diff_fin"
  /\ UNCHANGED <<traductor_concepto, traductor_cod_os, df_actual, df_anterior, hay_anterior,
                 datos_actual_total, datos_anterior_total, df_cambios_global, vars_run, vars_fn, vars_dos>>

NextDiff == DiffExtraer \/ DiffComparar \/ DiffDetectar

SpecDiff == InitDiff /\ [][NextDiff]_vars

(***************************************************************************)
(* The differ on snapshots in which payer codes appear and disappear       *)
(***************************************************************************)
FilasLog ==
  { FilaMaestro(<<"1">>, <<"A">>, Txt100, Txt100),
    FilaMaestro(<<"2">>, <<"B">>, Txt100, Txt0),
    FilaMaestro(<<"1">>, <<"B">>, Txt100, Txt100),
    FilaMaestro(<<"2">>, <<"B">>, Txt0, Txt0) }

MaestrosLog == {[obras |-> <<OS1, OS2>>, filas |-> f] : f \in SeqsUpTo(FilasLog, MaxFilas)}

InitLog ==
  /\ pc = "diff_extraer"
  /\ traductor_concepto = TraductorDiff.por_concepto
  /\ traductor_cod_os = TraductorDiff.por_cod_os
  /\ df_actual \in MaestrosLog
  /\ df_anterior \in MaestrosLog
  /\ hay_anterior = TRUE
  /\ datos_actual_total = <<>>
  /\ datos_anterior_total = <<>>
  /\ df_cambios_global = {}
  /\ obras_a_procesar = {}
  /\ tiene_maestro_anterior = TRUE
  /\ info = InfoInicial("personalizado")
  /\ temp_files = {}
  /\ cambios_temp_path = FALSE
  /\ zf = <<>>
  /\ pendientes = {}
  /\ archivos_agregados = 0
  /\ disco = {}
  /\ ruta_traductor = "personalizado"
  /\ retorno = FALSE
  /\ error = ""
  /\ entrada = ""
  /\ salida = ""
  /\ corridas = <<>>
  /\ output_dir = <<>>

SpecLog == InitLog /\ [][NextDiff]_vars

(***************************************************************************)
(* Input domains of the orchestrator specification                         *)
(***************************************************************************)
Txt50 == <<"5", "0">>

FilasRun ==
  { FilaMaestro(<<"1">>, <<"A">>, Txt100, Txt100),
    FilaMaestro(<<"2">>, <<"B">>, Txt50, Txt0),
    FilaMaestro(<<"1">>, <<"A">>, Txt200, Txt100) }

\* the row as it reads in a snapshot that has only the payer columns obras
Recortar(fila, obras) ==
  [cod_os |-> fila.cod_os, concepto |-> fila.concepto,
   valores |-> [o \in Range(obras) |-> fila.valores[o]]]

MaestroCon(obras, filas) ==
  [obras |-> obras, filas |-> [i \in DOMAIN filas |-> Recortar(filas[i], obras)]]

\* a table without rows, as read_excel returns it for an empty sheet
MaestroVacio == [obras |-> <<>>, filas |-> <<>>]

ObrasRun == {<<OS1>>, <<OS1, OS2>>}

MaestrosRun == {MaestroCon(o, f) : o \in ObrasRun, f \in SeqsUpTo(FilasRun, MaxFilas)}

\* previous snapshots are one row shorter than the longest current one
MaestrosAnteriorRun ==
  {MaestroCon(o, f) : o \in ObrasRun, f \in SeqsUpTo(FilasRun, MaxFilas - 1)}

\* a payer column whose header differs from OS1 by a space
OS1e == <<"O", "S", " ", "1">>

\* a snapshot whose two payer columns differ only by that space
MaestroHomonimo ==
  [obras |-> <<OS1, OS1e>>,
   filas |-> <<[cod_os |-> <<"1">>, concepto |-> <<"A">>,
                valores |-> (OS1 :> Txt100 @@ OS1e :> Txt50)]>>]

\* a table with the two leading columns and no payer column
MaestroSinObras == MaestroCon(<<>>, <<FilaMaestro(<<"1">>, <<"A">>, Txt100, Txt100)>>)

\* both concepts map to the same range
TablaMismoRango ==
  << FilaTraductor(<<"A">>, <<"1">>, <<"1", "0", "0">>, <<"1", "9", "9">>),
     FilaTraductor(<<"B">>, <<"2">>, <<"1", "0", "0">>, <<"1", "9", "9">>) >>

\* the row of concept A has no valid range
TablaSoloB ==
  << FilaTraductor(<<"B">>, <<"2">>, <<"1", "0", "0">>, <<"1", "9", "9">>),
     FilaTraductor(<<"A">>, <<"1">>, <<"0">>, <<"0">>) >>

\* no row has a valid range
TablaInvalida == << FilaTraductor(<<"A">>, <<"1">>, <<"0">>, <<"0">>) >>

TablasRun == {TablaMismoRango, TablaSoloB, TablaInvalida}

\* what reading a file can give: a failure, or the table that was read
Lectura(estado, tabla) == [estado |-> estado, tabla |-> tabla]

LecturasTraductor ==
  {Lectura(e, <<>>) : e \in {"no_existe", "ilegible", "vacio"}}
    \cup {Lectura("ok", t) : t \in TablasRun}

LecturasActual ==
  {Lectura("ilegible", MaestroVacio)}
    \cup {Lectura("ok", m) :
            m \in {MaestroVacio, MaestroSinObras, MaestroHomonimo} \cup MaestrosRun}

LecturasAnterior ==
  {Lectura(e, MaestroVacio) : e \in {"ninguno", "ilegible"}}
    \cup {Lectura("ok", m) : m \in {MaestroVacio} \cup MaestrosAnteriorRun}

(***************************************************************************)
(* procesar_excel_maestro_django                                           *)
(***************************************************************************)
Init ==
  /\ pc = "inicio"
  /\ traductor_concepto = <<>>
  /\ traductor_cod_os = <<>>
  /\ df_actual = MaestroVacio
  /\ df_anterior = MaestroVacio
  /\ hay_anterior = FALSE
  /\ datos_actual_total = <<>>
  /\ datos_anterior_total = <<>>
  /\ df_cambios_global = {}
  /\ obras_a_procesar = {}
  /\ tiene_maestro_anterior = FALSE
  /\ info = InfoInicial("")
  /\ temp_files = {}
  /\ cambios_temp_path = FALSE
  /\ zf = <<>>
  /\ pendientes = {}
  /\ archivos_agregados = 0
  /\ disco = {}
  /\ ruta_traductor = ""
  /\ retorno = FALSE
  /\ error = ""
  /\ entrada = ""
  /\ salida = ""
  /\ corridas = <<>>
  /\ output_dir = <<>>

\* verificar_directorios, the test of the current path and the choice of the
\* translator
Iniciar ==
  /\ pc = "inicio"
  /\ \E dir_ok \in BOOLEAN, actual_existe \in BOOLEAN,
        origen \in {"personalizado", "default", "ninguno"} :
       IF ~dir_ok
       THEN pc' = "finally" /\ error' = "PermissionError" /\ UNCHANGED ruta_traductor
       ELSE IF ~actual_existe
       THEN pc' = "finally" /\ error' = "FileNotFoundError: maestro actual"
            /\ UNCHANGED ruta_traductor
       ELSE IF origen = "ninguno"
       THEN pc' = "finally" /\ error' = "ValueError: sin traductor por defecto"
            /\ UNCHANGED ruta_traductor
       ELSE pc' = "cargar_traductor" /\ ruta_traductor' = origen /\ UNCHANGED error
  /\ UNCHANGED <<vars_diff, tiene_maestro_anterior, info, temp_files, cambios_temp_path, zf,
                 pendientes, archivos_agregados, disco, retorno, vars_fn, vars_dos>>

\* traductor_concepto, traductor_cod_os = cargar_traductor(ruta_traductor)
CargarTraductor ==
  /\ pc = "cargar_traductor"
  /\ \E leido \in LecturasTraductor :
       LET r == cargar_traductor_ruta(leido)
       IN IF r.error # ""
          THEN pc' = "finally" /\ error' = r.error
               /\ UNCHANGED <<traductor_concepto, traductor_cod_os>>
          ELSE /\ traductor_concepto' = r.por_concepto
               /\ traductor_cod_os' = r.por_cod_os
               /\ pc' = "cargar_actual"
               /\ UNCHANGED error
  /\ UNCHANGED <<df_actual, df_anterior, hay_anterior, datos_actual_total,
                 datos_anterior_total, df_cambios_global, obras_a_procesar,
                 tiene_maestro_anterior, info, temp_files, cambios_temp_path, zf, pendientes,
                 archivos_agregados, disco, ruta_traductor, retorno, vars_fn, vars_dos>>

\* df_actual = pd.read_excel(ruta_excel_actual) and the two shape tests
CargarActual ==
  /\ pc = "cargar_actual"
  /\ \E leido \in LecturasActual :
       IF leido.estado = "ilegible"
       THEN pc' = "finally" /\ error' = "Exception: maestro actual ilegible"
            /\ UNCHANGED df_actual
       ELSE IF leido.tabla.filas = <<>>
       THEN pc' = "finally" /\ error' = "ValueError: maestro actual vacio"
            /\ df_actual' = leido.tabla
       ELSE IF Len(leido.tabla.obras) + 2 < 3
       THEN pc' = "finally" /\ error' = "ValueError: menos de 3 columnas"
            /\ df_actual' = leido.tabla
       ELSE pc' = "cargar_anterior" /\ df_actual' = leido.tabla /\ UNCHANGED error
  /\ UNCHANGED <<traductor_concepto, traductor_cod_os, df_anterior, hay_anterior,
                 datos_actual_total, datos_anterior_total, df_cambios_global,
                 obras_a_procesar, tiene_maestro_anterior, info, temp_files,
                 cambios_temp_path, zf, pendientes, archivos_agregados, disco,
                 ruta_traductor, retorno, vars_fn, vars_dos>>

\* the optional previous snapshot, then the initial summary
CargarAnterior ==
  /\ pc = "cargar_anterior"
  /\ \E leido \in LecturasAnterior :
       IF leido.estado \in {"ninguno", "ilegible"}
       THEN /\ hay_anterior' = FALSE
            /\ tiene_maestro_anterior' = FALSE
            /\ UNCHANGED df_anterior
       ELSE /\ hay_anterior' = TRUE
            /\ df_anterior' = leido.tabla
            /\ tiene_maestro_anterior' = (leido.tabla.filas # <<>>)
  /\ info' = InfoInicial(ruta_traductor)
  /\ pc' = "extraer"
  /\ UNCHANGED <<traductor_concepto, traductor_cod_os, df_actual, datos_actual_total,
                 datos_anterior_total, df_cambios_global, obras_a_procesar, temp_files,
                 cambios_temp_path, zf, pendientes, archivos_agregados, disco,
                 ruta_traductor, retorno, error, vars_fn, vars_dos>>

\* the loop over obras_cols that fills datos_actual_total, datos_anterior_total
ExtraerTodo ==
  /\ pc = "extraer"
  /\ datos_actual_total' =
       AcumularDatos(<<>>, df_actual, df_actual.obras, traductor_concepto, traductor_cod_os)
  /\ datos_anterior_total' =
       IF hay_anterior
       THEN AcumularDatos(<<>>, df_anterior, df_actual.obras, traductor_concepto,
                          traductor_cod_os)
       ELSE <<>>
  /\ pc' = "comparar"
  /\ UNCHANGED <<traductor_concepto, traductor_cod_os, df_actual, df_anterior, hay_anterior,
                 df_cambios_global, obras_a_procesar, vars_run, vars_fn, vars_dos>>

\* mutant: the spreadsheet is written even when the log has no rows
DebeEscribirCambios_SinFilas(tiene_anterior, datos_anterior, cambios) ==
  tiene_anterior /\ datos_anterior # <<>>

\* the change log is written when there is previous data and the log has rows
DebeEscribirCambios(tiene_anterior, datos_anterior, cambios) ==
  tiene_anterior /\ datos_anterior # <<>> /\ cambios # {}

\* the change log and its spreadsheet in the output directory
CompararGlobal ==
  /\ pc = "comparar"
  /\ LET cambios ==
           IF tiene_maestro_anterior /\ datos_anterior_total # <<>>
           THEN comparar_maestros_global(datos_actual_total, datos_anterior_total,
                                         df_actual.obras, df_actual, df_anterior)
           ELSE {}
         escribe == DebeEscribirCambios(tiene_maestro_anterior, datos_anterior_total, cambios)
     IN /\ df_cambios_global' = cambios
        /\ cambios_temp_path' = escribe
        /\ disco' = IF escribe THEN disco \cup {"cambios"} ELSE disco
        /\ info' = IF escribe
                   THEN [info EXCEPT !.cambios_detectados = TRUE,
                                     !.excel_cambios_generado = TRUE]
                   ELSE info
        /\ temp_files' = IF escribe THEN temp_files \cup {"cambios"} ELSE temp_files
  /\ pc' = "seleccionar"
  /\ UNCHANGED <<traductor_concepto, traductor_cod_os, df_actual, df_anterior, hay_anterior,
                 datos_actual_total, datos_anterior_total, obras_a_procesar,
                 tiene_maestro_anterior, zf, pendientes, archivos_agregados,
                 ruta_traductor, retorno, error, vars_fn, vars_dos>>

\* mutant: the comparison is run whether or not a previous snapshot was loaded
SeleccionarObras_SiempreCompara ==
  /\ pc = "seleccionar"
  /\ obras_a_procesar' =
       detectar_sin_atajo(datos_actual_total, datos_anterior_total, df_actual.obras,
                          df_actual, df_anterior, traductor_concepto, traductor_cod_os)
  /\ info' = [info EXCEPT !.modo_procesamiento = "inteligente"]
  /\ pc' = "abrir_zip"
  /\ UNCHANGED <<traductor_concepto, traductor_cod_os, df_actual, df_anterior, hay_anterior,
                 datos_actual_total, datos_anterior_total, df_cambios_global,
                 tiene_maestro_anterior, temp_files, cambios_temp_path, zf, pendientes,
                 archivos_agregados, disco, ruta_traductor, retorno, error, vars_fn, vars_dos>>

\* the payer columns to regenerate and the processing mode
SeleccionarObras ==
  /\ pc = "seleccionar"
  /\ IF tiene_maestro_anterior
     THEN /\ obras_a_procesar' =
               detectar_obras_sociales_con_cambios(datos_actual_total, datos_anterior_total,
                                                   df_actual.obras, df_actual, df_anterior,
                                                   traductor_concepto, traductor_cod_os)
          /\ info' = [info EXCEPT !.modo_procesamiento = "inteligente"]
     ELSE /\ obras_a_procesar' = Range(df_actual.obras)
          /\ UNCHANGED info
  /\ pc' = "abrir_zip"
  /\ UNCHANGED <<traductor_concepto, traductor_cod_os, df_actual, df_anterior, hay_anterior,
                 datos_actual_total, datos_anterior_total, df_cambios_global,
                 tiene_maestro_anterior, temp_files, cambios_temp_path, zf, pendientes,
                 archivos_agregados, disco, ruta_traductor, retorno, error, vars_fn, vars_dos>>

EntradaCambios == [nombre |-> NombreCambios, clase |-> "cambios", obra |-> <<>>, registros |-> <<>>]

\* zipfile.ZipFile(zip_path, "w") creates the file; the change log goes in first
AbrirZip ==
  /\ pc = "abrir_zip"
  /\ \E abre \in BOOLEAN :
       IF ~abre
       THEN pc' = "finally" /\ error' = "OSError: zip" /\ UNCHANGED <<zf, pendientes, disco>>
       ELSE /\ disco' = disco \cup {"zip"}
            /\ zf' = IF cambios_temp_path /\ "cambios" \in disco
                     THEN <<EntradaCambios>> ELSE <<>>
            /\ pendientes' = obras_a_procesar
            /\ pc' = "empaquetar"
            /\ UNCHANGED error
  /\ archivos_agregados' = 0
  /\ UNCHANGED <<vars_diff, tiene_maestro_anterior, info, temp_files, cambios_temp_path,
                 ruta_traductor, retorno, vars_fn, vars_dos>>

\* the permutations of a sequence
Permutaciones(regs) ==
  {[i \in DOMAIN regs |-> regs[p[i]]] :
     p \in {q \in [DOMAIN regs -> DOMAIN regs] : \A i, j \in DOMAIN regs : q[i] = q[j] => i = j}}

\* mutant: the records are not sorted before the duplicates are dropped
Ordenes_SinOrdenar(regs) == {regs}

\* sort_values("importe_num", ascending=False): every order of the records
\* in which the amounts do not increase (the default sort is not stable)
OrdenesDesc(regs) ==
  {s \in Permutaciones(regs) :
     \A i, j \in DOMAIN s : i < j => ~Menor(s[i].importe, s[j].importe)}

\* mutant: the counter advances on every iteration of the loop
AgregadosTras_Siempre(agregados, omitido) == agregados + 1

\* mutant: a packaged column is not counted
AgregadosTras_Nunca(agregados, omitido) == agregados

\* archivos_agregados after one iteration of the packaging loop
AgregadosTras(agregados, omitido) == IF omitido THEN agregados ELSE agregados + 1

\* one iteration of the loop over obras_a_procesar
ProcesarObra ==
  /\ pc = "empaquetar"
  /\ \E obra_col \in pendientes, falla \in BOOLEAN :
       LET datos_actual == procesar_maestro_individual(df_actual, obra_col,
                                                       traductor_concepto, traductor_cod_os)
           omitido == falla \/ datos_actual = <<>>
       IN /\ \E orden \in OrdenesDesc(DatosFinales(datos_actual)) :
               zf' = IF omitido THEN zf
                     ELSE Append(zf, [nombre    |-> NombreArchivo(obra_col),
                                      clase     |-> "obra",
                                      obra      |-> obra_col,
                                      registros |-> DropDuplicates(orden)])
          /\ info' = IF omitido
                     THEN [info EXCEPT !.archivos_omitidos = @ + 1]
                     ELSE info
          /\ archivos_agregados' = AgregadosTras(archivos_agregados, omitido)
          /\ pendientes' = pendientes \ {obra_col}
  /\ UNCHANGED <<pc, vars_diff, tiene_maestro_anterior, temp_files, cambios_temp_path, disco,
                 ruta_traductor, retorno, error, vars_fn, vars_dos>>

\* mutant: the size of the archive is not tested
ZipCorrecto_SinTam(existe, tam) == existe

\* not (not zip_path.exists() or zip_path.stat().st_size < 100)
ZipCorrecto(existe, tam) == existe /\ ~(tam < MinBytesZip)

\* the end of the with block, the count, the integrity test and the return
VerificarZip ==
  /\ pc = "empaquetar"
  /\ pendientes = {}
  /\ info' = [info EXCEPT !.archivos_generados = archivos_agregados]
  /\ IF ZipCorrecto("zip" \in disco, TamZip(zf))
     THEN retorno' = TRUE /\ UNCHANGED error
     ELSE error' = "ValueError: zip" /\ UNCHANGED retorno
  /\ pc' = "finally"
  /\ UNCHANGED <<vars_diff, tiene_maestro_anterior, temp_files, cambios_temp_path, zf,
                 pendientes, archivos_agregados, disco, ruta_traductor, vars_fn, vars_dos>>

\* mutant: the temporary files are left in place
Limpiar_Nada(archivos, temporales) == archivos

\* the files left after the finally block unlinked every temporary file
Limpiar(archivos, temporales) == archivos \ temporales

\* mutant: a failed run goes back to the extraction after the cleanup
Finally_Reintenta ==
  /\ pc = "finally"
  /\ disco' = Limpiar(disco, temp_files)
  /\ pc' = IF retorno THEN "done" ELSE "extraer"
  /\ UNCHANGED <<vars_diff, tiene_maestro_anterior, info, temp_files, cambios_temp_path, zf,
                 pendientes, archivos_agregados, ruta_traductor, retorno, error, vars_fn, vars_dos>>

\* the except and finally blocks; control goes back to the caller
Finally ==
  /\ pc = "finally"
  /\ disco' = Limpiar(disco, temp_files)
  /\ pc' = IF retorno THEN "done" ELSE "failed"
  /\ UNCHANGED <<vars_diff, tiene_maestro_anterior, info, temp_files, cambios_temp_path, zf,
                 pendientes, archivos_agregados, ruta_traductor, retorno, error, vars_fn, vars_dos>>

Next ==
  \/ Iniciar
  \/ CargarTraductor
  \/ CargarActual
  \/ CargarAnterior
  \/ ExtraerTodo
  \/ CompararGlobal
  \/ SeleccionarObras
  \/ AbrirZip
  \/ ProcesarObra
  \/ VerificarZip
  \/ Finally

Spec == Init /\ [][Next]_vars

(***************************************************************************)
(* The functions of the engine called on their own                         *)
(***************************************************************************)
TxtA  == <<"A">>
TxtC  == <<"C">>
Txt_a == <<" ", "a">>

FilasExt ==
  { FilaMaestro(<<"1">>, TxtA, Txt100, Txt0),
    FilaMaestro(<<"1">>, TxtC, Txt50, Txt50),
    FilaMaestro(<<"5">>, TxtC, Txt100, Txt100),
    FilaMaestro(<<"1">>, TxtA, Txt0, Txt100),
    FilaMaestro(<<"1">>, Txt_a, Txt200, Txt0),
    FilaMaestro(<<"2">>, <<"A", "_", "1">>, Txt100, Txt100),
    FilaMaestro(<<"1", "_", "2">>, TxtA, Txt50, Txt50) }

\* concept A and payer code 1 are both indexed, with different ranges
TablaCruzada ==
  << FilaTraductor(<<"A">>, <<"9">>, <<"1", "0", "0">>, <<"1", "9", "9">>),
     FilaTraductor(<<"Z">>, <<"1">>, <<"3", "0", "0">>, <<"3", "9", "9">>) >>

TablasExt == {TablaCruzada, TablaDiff}

EntradasExtraer ==
  {[fn |-> "procesar_maestro_individual",
    df |-> [obras |-> <<OS1, OS2>>, filas |-> f],
    obra_col |-> o,
    traductor_concepto |-> cargar_traductor(t).por_concepto,
    traductor_cod_os |-> cargar_traductor(t).por_cod_os] :
     f \in SeqsUpTo(FilasExt, MaxFilas), o \in {OS1, OS2}, t \in TablasExt}

LlamarExtraer ==
  /\ pc = "llamar"
  /\ entrada.fn = "procesar_maestro_individual"
  /\ salida' = procesar_maestro_individual(entrada.df, entrada.obra_col,
                                           entrada.traductor_concepto, entrada.traductor_cod_os)
  /\ pc' = "retorno"
  /\ UNCHANGED <<vars_diff, vars_run, entrada, vars_dos>>

TxtX == <<"x">>
TxtBlanco == <<" ">>

FilasTrad ==
  { FilaTraductor(TxtA, <<"1">>, <<"1", "0", "0">>, <<"1", "9", "9">>),
    FilaTraductor(Txt_a, <<"1">>, <<"3", "0", "0">>, <<"3", "9", "9">>),
    FilaTraductor(TxtA, <<"2">>, <<"0">>, <<"5", "0">>),
    FilaTraductor(<<"B">>, <<"1">>, <<"1", "0", "0">>, TxtX),
    FilaTraductor(TxtBlanco, NaN, <<"1", "0", "0">>, <<"1", "9", "9">>),
    FilaTraductor(TxtBlanco, <<"2">>, <<"5", "0", "0">>, <<"5", "9", "9">>),
    FilaTraductor(TxtC, <<"3">>, <<"1", "2", "3", "4", "5", "6", "7", "8", "9">>,
                  <<"1", "2", "3", "4", "5", "6", "7", "8", "9">>) }

EntradasCargar ==
  {[fn |-> "cargar_traductor", leido |-> l] :
     l \in {Lectura(e, <<>>) : e \in {"no_existe", "ilegible", "vacio"}}
             \cup {Lectura("ok", t) : t \in SeqsUpTo(FilasTrad, MaxFilas)}}

LlamarCargar ==
  /\ pc = "llamar"
  /\ entrada.fn = "cargar_traductor"
  /\ salida' = cargar_traductor_ruta(entrada.leido)
  /\ pc' = "retorno"
  /\ UNCHANGED <<vars_diff, vars_run, entrada, vars_dos>>

ImportesTipo ==
  {[ent |-> n, mil |-> m] :
     n \in {0, 1, UmbralM - 1, UmbralM, UmbralCMin - 1, UmbralCMin, RangoEspecialMin,
            UmbralCMax, UmbralCMax + 1, 50000000},
     m \in {0, 1, 999}}

EntradasTipo == {[fn |-> "determinar_tipo", valor |-> v] : v \in ImportesTipo}

LlamarTipo ==
  /\ pc = "llamar"
  /\ entrada.fn = "determinar_tipo"
  /\ salida' = determinar_tipo(entrada.valor)
  /\ pc' = "retorno"
  /\ UNCHANGED <<vars_diff, vars_run, entrada, vars_dos>>

CodigosConcepto ==
  { <<>>, TxtX, TxtBlanco,
    <<"0", "0", "0", "0", "0", "1", "0", "0">>,
    <<"4", "1", "9", "9", "9", "9", "9", "9">>,
    <<"4", "2", "0", "0", "0", "0", "0", "0">>,
    <<"4", "2", "5", "0", "0", "0", "0", "0">>,
    <<"4", "3", "0", "0", "0", "0", "0", "0">>,
    <<"4", "3", "0", "0", "0", "0", "0", "0", ".", "9">>,
    <<"4", "3", "0", "0", "0", "0", "0", "1">>,
    <<"-", "4", "2", "5", "0", "0", "0", "0", "0">> }

TiposConcepto == {"M", "V", "C", ""}

EntradasConcepto ==
  {[fn |-> "determinar_concepto", cod_desde |-> d, cod_hasta |-> h, tipo_calculado |-> t] :
     d \in CodigosConcepto, h \in CodigosConcepto, t \in TiposConcepto}

LlamarConcepto ==
  /\ pc = "llamar"
  /\ entrada.fn = "determinar_concepto"
  /\ salida' = determinar_concepto(entrada.cod_desde, entrada.cod_hasta, entrada.tipo_calculado)
  /\ pc' = "retorno"
  /\ UNCHANGED <<vars_diff, vars_run, entrada, vars_dos>>

TextosImporte ==
  { NaN, <<>>, TxtX, Txt0, Txt100,
    <<"1", ".", "2", "3", "4", ",", "5", "6">>,
    <<"1", "2", "3", "4", ",", "5", "6">>,
    <<"1", ",", "2", "3", "4", ".", "5", "6">>,
    <<"1", ",", "2", "3", "4">>,
    <<"1", "2", "3", "4", ".", "5", "6">>,
    <<"$", " ", "5", "0", "0">>,
    <<" ", "5", "0", "0", " ">>,
    <<"-", "5">>,
    <<"0", ".", "0">>,
    <<"1", ",", "2", ",", "3">> }

EntradasImporte == {[fn |-> "limpiar_importe_raw", v |-> t] : t \in TextosImporte}

LlamarImporte ==
  /\ pc = "llamar"
  /\ entrada.fn = "limpiar_importe_raw"
  /\ salida' = limpiar_importe_raw(entrada.v)
  /\ pc' = "retorno"
  /\ UNCHANGED <<vars_diff, vars_run, entrada, vars_dos>>

TextosCodigo ==
  CodigosNulos \cup
  { <<"1", "2", "3">>,
    <<"0", "0", "0", "0", "0", "1", "2", "3">>,
    <<" ", "1", "2", "3", " ">>,
    <<" ", "0", " ">>,
    <<"0", ".", "5">>,
    <<"0", "0">>,
    <<"1", "2", ".", "9">>,
    <<"-", "3">>,
    TxtX, TxtBlanco }

EntradasCodigo == {[fn |-> "validar_codigo", cod |-> t] : t \in TextosCodigo}

LlamarValidar ==
  /\ pc = "llamar"
  /\ entrada.fn = "validar_codigo"
  /\ salida' = validar_codigo(entrada.cod)
  /\ pc' = "retorno"
  /\ UNCHANGED <<vars_diff, vars_run, entrada, vars_dos>>

\* FN_MORE
EntradasFn ==
  EntradasExtraer \cup EntradasCargar \cup EntradasTipo \cup EntradasConcepto
    \cup EntradasImporte \cup EntradasCodigo

InitFn ==
  /\ pc = "llamar"
  /\ entrada \in EntradasFn
  /\ salida = ""
  /\ corridas = <<>>
  /\ output_dir = <<>>
  /\ traductor_concepto = <<>>
  /\ traductor_cod_os = <<>>
  /\ df_actual = MaestroVacio
  /\ df_anterior = MaestroVacio
  /\ hay_anterior = FALSE
  /\ datos_actual_total = <<>>
  /\ datos_anterior_total = <<>>
  /\ df_cambios_global = {}
  /\ obras_a_procesar = {}
  /\ tiene_maestro_anterior = FALSE
  /\ info = InfoInicial("")
  /\ temp_files = {}
  /\ cambios_temp_path = FALSE
  /\ zf = <<>>
  /\ pendientes = {}
  /\ archivos_agregados = 0
  /\ disco = {}
  /\ ruta_traductor = ""
  /\ retorno = FALSE
  /\ error = ""

NextFn ==
  \/ LlamarExtraer
  \/ LlamarCargar
  \/ LlamarTipo
  \/ LlamarConcepto
  \/ LlamarImporte
  \/ LlamarValidar

SpecFn == InitFn /\ [][NextFn]_vars

(***************************************************************************)
(* Two runs that overlap in time over the same output directory            *)
(***************************************************************************)
Corridas == {1, 2}

MesSiguiente == <<"2025-10">>

Meses == {Mes, MesSiguiente}

\* the paths a run writes in the output directory
RutaPrueba == <<".test_write">>

RutaCambios(mes) == <<"cambios_global_">> \o mes \o <<".xlsx">>

RutaZip(mes) == <<"Valores Excel Individual ">> \o mes \o <<".zip">>

Rutas == {RutaPrueba} \cup {RutaCambios(m) : m \in Meses} \cup {RutaZip(m) : m \in Meses}

\* a file of the directory: who wrote it (0: bytes of both runs) and, for an
\* archive, its entries
Ausente == [existe |-> FALSE, autor |-> 0, entradas |-> <<>>]

Archivo(autor, entradas) == [existe |-> TRUE, autor |-> autor, entradas |-> entradas]

\* an archive entry: the change log as read from the directory, or the
\* spreadsheet of the payer column of run r
EntradaDe(clase, autor) == [clase |-> clase, autor |-> autor]

\* a run before its first step; cambia: its change log has rows
CorridaInicial(mes, cambia) ==
  [pc |-> "probar", mes |-> mes, cambia |-> cambia, temp_files |-> {},
   cambios_temp_path |-> <<>>, zf |-> <<>>, excel_cambios_generado |-> FALSE,
   devuelto |-> Ausente, error |-> ""]

InitDos ==
  /\ corridas \in [Corridas -> {CorridaInicial(m, c) : m \in Meses, c \in BOOLEAN}]
  /\ output_dir = [p \in Rutas |-> Ausente]
  /\ pc = "dos"
  /\ entrada = ""
  /\ salida = ""
  /\ traductor_concepto = <<>>
  /\ traductor_cod_os = <<>>
  /\ df_actual = MaestroVacio
  /\ df_anterior = MaestroVacio
  /\ hay_anterior = FALSE
  /\ datos_actual_total = <<>>
  /\ datos_anterior_total = <<>>
  /\ df_cambios_global = {}
  /\ obras_a_procesar = {}
  /\ tiene_maestro_anterior = FALSE
  /\ info = InfoInicial("")
  /\ temp_files = {}
  /\ cambios_temp_path = FALSE
  /\ zf = <<>>
  /\ pendientes = {}
  /\ archivos_agregados = 0
  /\ disco = {}
  /\ ruta_traductor = ""
  /\ retorno = FALSE
  /\ error = ""

\* test_file.write_text('test') of verificar_directorios
EscribirPrueba ==
  \E r \in Corridas :
    /\ corridas[r].pc = "probar"
    /\ output_dir' = [output_dir EXCEPT ![RutaPrueba] = Archivo(r, <<>>)]
    /\ corridas' = [corridas EXCEPT ![r].pc = "quitar_prueba"]
    /\ UNCHANGED <<pc, vars_diff, vars_run, vars_fn>>

\* test_file.unlink() of verificar_directorios; a missing file raises, and
\* the exception is turned into PermissionError
QuitarPrueba ==
  \E r \in Corridas :
    /\ corridas[r].pc = "quitar_prueba"
    /\ IF output_dir[RutaPrueba].existe
       THEN /\ output_dir' = [output_dir EXCEPT ![RutaPrueba] = Ausente]
            /\ corridas' = [corridas EXCEPT ![r].pc = "comparar"]
       ELSE /\ corridas' = [corridas EXCEPT ![r].pc = "finally",
                                            ![r].error = "PermissionError"]
            /\ UNCHANGED output_dir
    /\ UNCHANGED <<pc, vars_diff, vars_run, vars_fn>>

\* the change log of the run is written to cambios_global_{mes}.xlsx
EscribirCambios ==
  \E r \in Corridas :
    /\ corridas[r].pc = "comparar"
    /\ IF corridas[r].cambia
       THEN /\ output_dir' = [output_dir EXCEPT ![RutaCambios(corridas[r].mes)] =
                                                  Archivo(r, <<>>)]
            /\ corridas' =
                 [corridas EXCEPT ![r].pc = "abrir_zip",
                                  ![r].cambios_temp_path = RutaCambios(corridas[r].mes),
                                  ![r].excel_cambios_generado = TRUE,
                                  ![r].temp_files = @ \cup {RutaCambios(corridas[r].mes)}]
       ELSE /\ corridas' = [corridas EXCEPT ![r].pc = "abrir_zip"]
            /\ UNCHANGED output_dir
    /\ UNCHANGED <<pc, vars_diff, vars_run, vars_fn>>

\* zipfile.ZipFile(zip_path, "w") truncates or creates the archive; the
\* change log is copied from the directory if the file is there
AbrirArchivo ==
  \E r \in Corridas :
    /\ corridas[r].pc = "abrir_zip"
    /\ output_dir' = [output_dir EXCEPT ![RutaZip(corridas[r].mes)] = Archivo(r, <<>>)]
    /\ corridas' =
         [corridas EXCEPT
            ![r].pc = "empaquetar",
            ![r].zf = IF /\ corridas[r].cambios_temp_path # <<>>
                         /\ output_dir[corridas[r].cambios_temp_path].existe
                      THEN <<EntradaDe("cambios",
                                       output_dir[corridas[r].cambios_temp_path].autor)>>
                      ELSE <<>>]
    /\ UNCHANGED <<pc, vars_diff, vars_run, vars_fn>>

\* the packaging loop, for a run with one payer column that has records
EmpaquetarObra ==
  \E r \in Corridas :
    /\ corridas[r].pc = "empaquetar"
    /\ corridas' = [corridas EXCEPT ![r].pc = "cerrar",
                                    ![r].zf = Append(@, EntradaDe("obra", r))]
    /\ UNCHANGED <<pc, output_dir, vars_diff, vars_run, vars_fn>>

\* the end of the with block writes the entries; if the other run opened the
\* same path in between, the file holds bytes of both. Then the integrity
\* test and the return statement.
CerrarArchivo ==
  \E r \in Corridas :
    LET ruta == RutaZip(corridas[r].mes)
        cerrado == Archivo(IF output_dir[ruta].autor = r THEN r ELSE 0, corridas[r].zf)
    IN /\ corridas[r].pc = "cerrar"
       /\ output_dir' = [output_dir EXCEPT ![ruta] = cerrado]
       /\ corridas' =
            [corridas EXCEPT
               ![r].pc = "finally",
               ![r].devuelto = cerrado,
               ![r].error = IF ZipCorrecto(cerrado.existe, TamZip(cerrado.entradas))
                            THEN "" ELSE "ValueError: zip"]
       /\ UNCHANGED <<pc, vars_diff, vars_run, vars_fn>>

\* the finally block unlinks every temporary file of the run that exists
LimpiarTemporales ==
  \E r \in Corridas :
    /\ corridas[r].pc = "finally"
    /\ output_dir' = [p \in Rutas |->
                        IF p \in corridas[r].temp_files THEN Ausente ELSE output_dir[p]]
    /\ corridas' = [corridas EXCEPT ![r].pc = IF corridas[r].error = "" THEN "done"
                                              ELSE "failed"]
    /\ UNCHANGED <<pc, vars_diff, vars_run, vars_fn>>

NextDos ==
  \/ EscribirPrueba
  \/ QuitarPrueba
  \/ EscribirCambios
  \/ AbrirArchivo
  \/ EmpaquetarObra
  \/ CerrarArchivo
  \/ LimpiarTemporales

SpecDos == InitDos /\ [][NextDos]_vars

(***************************************************************************)
(* Properties of the differ                                                *)
(***************************************************************************)
Importe(df, i, o) == limpiar_importe_raw(df.filas[i].valores[o])

Resoluble(fila) ==
  buscar_en_traductor(Strip(fila.concepto), Strip(fila.cod_os),
                      traductor_concepto, traductor_cod_os).hallado

ClaveFila(fila) == <<normalizar_texto(Strip(fila.concepto)), Strip(fila.cod_os)>>

\* the two snapshots have the same columns and the same (code, concept) cells
MismasFilas ==
  /\ df_actual.obras = df_anterior.obras
  /\ Len(df_actual.filas) = Len(df_anterior.filas)
  /\ \A i \in DOMAIN df_actual.filas :
       /\ df_actual.filas[i].cod_os = df_anterior.filas[i].cod_os
       /\ df_actual.filas[i].concepto = df_anterior.filas[i].concepto

\* the snapshots are identical except the amount of row i in column o, which
\* differs by more than 0.01 in a row the translator resolves
SoloDifiere(i, o) ==
  /\ MismasFilas
  /\ \A j \in DOMAIN df_actual.filas : \A p \in Columnas(df_actual) :
       <<j, p>> # <<i, o>> => df_actual.filas[j].valores[p] = df_anterior.filas[j].valores[p]
  /\ ExcedeTolerancia(Importe(df_actual, i, o), Importe(df_anterior, i, o))
  /\ Resoluble(df_actual.filas[i])

ClaveUnica(i) ==
  \A j \in DOMAIN df_actual.filas :
    j # i => ClaveFila(df_actual.filas[j]) # ClaveFila(df_actual.filas[i])

\* C1 as stated: with non-empty previous records and snapshots that differ in
\* one amount of one resolvable row by more than 0.01, selectChangedPayers
\* returns exactly the column of that amount.
C1_Original ==
  (pc = "diff_fin" /\ datos_anterior_total # <<>>) =>
    \A i \in DOMAIN df_actual.filas : \A o \in Columnas(df_actual) :
      SoloDifiere(i, o) => obras_a_procesar = {o}

\* C1 amended: the same, provided no other row of the snapshot has the record
\* key (normalized concept, payer code) of the changed row.
C1_Amended ==
  (pc = "diff_fin" /\ datos_anterior_total # <<>>) =>
    \A i \in DOMAIN df_actual.filas : \A o \in Columnas(df_actual) :
      (SoloDifiere(i, o) /\ ClaveUnica(i)) => obras_a_procesar = {o}

C1_Witness ==
  /\ pc = "diff_fin"
  /\ datos_anterior_total # <<>>
  /\ Len(df_actual.filas) = MaxFilas
  /\ \E i \in DOMAIN df_actual.filas :
       /\ SoloDifiere(i, OS1) /\ ClaveUnica(i)
       /\ Importe(df_anterior, i, OS1) = [ent |-> 100, mil |-> 0]
       /\ Importe(df_actual, i, OS1) = [ent |-> 200, mil |-> 0]
  /\ obras_a_procesar = {OS1}

SoloImportesDifieren == MismasFilas

MismaPositividad ==
  \A i \in DOMAIN df_actual.filas : \A o \in Columnas(df_actual) :
    Positivo(Importe(df_actual, i, o)) <=> Positivo(Importe(df_anterior, i, o))

\* C2 as stated: snapshots with the same (code, concept) cells row for row,
\* differing only in amounts, give an empty change log.
C2_Original ==
  (pc \in {"diff_detectar", "diff_fin"} /\ SoloImportesDifieren) => df_cambios_global = {}

\* C2 amended: the same, provided every cell parses to a positive amount in
\* the current snapshot exactly when it does in the previous one.
C2_Amended ==
  (pc \in {"diff_detectar", "diff_fin"} /\ SoloImportesDifieren /\ MismaPositividad) =>
    df_cambios_global = {}

C2_Witness ==
  /\ pc = "diff_detectar"
  /\ SoloImportesDifieren /\ MismaPositividad
  /\ df_actual # df_anterior
  /\ datos_anterior_total # <<>>
  /\ df_cambios_global = {}

CodigosDe(datos) == {datos[i].cod_os : i \in DOMAIN datos}

\* the state the claim assigns to a code from its presence in the two periods
EstadoPorPresencia(c) ==
  LET enActual   == c \in CodigosDe(datos_actual_total)
      enAnterior == c \in CodigosDe(datos_anterior_total)
  IN IF enActual /\ enAnterior
     THEN IF CodosAConcepto(datos_actual_total)[c] # CodosAConcepto(datos_anterior_total)[c]
          THEN "Modificado" ELSE ""
     ELSE IF enAnterior THEN "Eliminado"
     ELSE "Nuevo"

FilasDeCodigo(c) ==
  {f \in df_cambios_global : f.cod_os_antes = c \/ f.cod_os_actual = c}

\* C3: every code of the union gets at most one entry, and its status follows
\* from presence in the two periods alone (so a code present in the current
\* records is never "Eliminado").
C3_Original ==
  pc \in {"diff_detectar", "diff_fin"} =>
    \A c \in CodigosDe(datos_actual_total) \cup CodigosDe(datos_anterior_total) :
      /\ Cardinality(FilasDeCodigo(c)) <= 1
      /\ EstadoPorPresencia(c) = "" => FilasDeCodigo(c) = {}
      /\ EstadoPorPresencia(c) # "" =>
           \E f \in FilasDeCodigo(c) : f.estado = EstadoPorPresencia(c)

\* C4: with an empty previous-record map selectChangedPayers returns every
\* payer column it was given.
C4_Theorem ==
  (pc = "diff_fin" /\ datos_anterior_total = <<>>) => obras_a_procesar = Range(df_actual.obras)

C4_Witness ==
  /\ pc = "diff_fin"
  /\ datos_anterior_total = <<>>
  /\ df_anterior.filas # <<>>
  /\ df_anterior = df_actual
  /\ obras_a_procesar = {OS1, OS2}

(***************************************************************************)
(* Properties of the orchestrator                                          *)
(***************************************************************************)
EntradasObra == {i \in DOMAIN zf : zf[i].clase = "obra"}

EntradasCambios == {i \in DOMAIN zf : zf[i].clase = "cambios" /\ zf[i].nombre = NombreCambios}

ExtraidosDe(obra_col) ==
  procesar_maestro_individual(df_actual, obra_col, traductor_concepto, traductor_cod_os)

ParSalida(r) == <<r.coddesde, r.codhasta>>

ParExtraido(d) == <<d.cod_desde, d.cod_hasta>>

\* C5: in every payer spreadsheet of the archive no two records share the
\* (coddesde, codhasta) pair, every pair of the payer's extracted records
\* occurs in it (hence exactly once) and no other pair does, and the record
\* kept for a pair carries the largest amount among the extracted records
\* of that pair.
C5_Theorem ==
  \A e \in EntradasObra :
    LET datos == ExtraidosDe(zf[e].obra)
        regs  == zf[e].registros
    IN /\ \A i, j \in DOMAIN regs : ParSalida(regs[i]) = ParSalida(regs[j]) => i = j
       /\ \A k \in DOMAIN datos : \E i \in DOMAIN regs : ParSalida(regs[i]) = ParExtraido(datos[k])
       /\ \A i \in DOMAIN regs :
            /\ \E k \in DOMAIN datos :
                 /\ ParExtraido(datos[k]) = ParSalida(regs[i])
                 /\ datos[k].valor = regs[i].importe
            /\ \A k \in DOMAIN datos :
                 ParExtraido(datos[k]) = ParSalida(regs[i])
                   => ~Menor(regs[i].importe, datos[k].valor)

\* a payer spreadsheet was written in which two extracted records shared a
\* pair and the first of them, in extraction order, had the smaller amount
C5_Witness ==
  \E e \in EntradasObra :
    LET datos == ExtraidosDe(zf[e].obra)
    IN /\ Len(zf[e].registros) < Len(datos)
       /\ \E k, m \in DOMAIN datos :
            /\ k < m
            /\ ParExtraido(datos[k]) = ParExtraido(datos[m])
            /\ Menor(datos[k].valor, datos[m].valor)

\* C6: a run never reaches Done with the archive missing or below 100 bytes;
\* when the packaging loop ends with the archive missing or below 100 bytes
\* the run raises the integrity error, returns nothing and ends in Failed.
C6_Theorem ==
  /\ [](pc = "done" => ("zip" \in disco /\ TamZip(zf) >= MinBytesZip /\ retorno /\ error = ""))
  /\ [][(pc = "empaquetar" /\ pendientes = {} /\ ("zip" \notin disco \/ TamZip(zf) < MinBytesZip))
          => (pc' = "finally" /\ error' = "ValueError: zip" /\ ~retorno')]_vars
  /\ [](error = "ValueError: zip" => (~retorno /\ pc \in {"finally", "failed"}))

\* a run ended in Failed on the integrity test with a too-small archive
C6_Witness ==
  /\ pc = "failed"
  /\ error = "ValueError: zip"
  /\ TamZip(zf) < MinBytesZip
  /\ ~retorno

\* C7: on Done the count archivos_generados of the summary is the number of
\* payer spreadsheets in the archive; with a single payer column and no
\* previous snapshot that number is 1 and archivos_omitidos is 0.
C7_Theorem ==
  pc = "done" =>
    /\ info.archivos_generados = Cardinality(EntradasObra)
    /\ (Len(df_actual.obras) = 1 /\ ~hay_anterior)
         => (info.archivos_generados = 1 /\ info.archivos_omitidos = 0)

\* a successful run in which one payer was written and another was omitted
C7_Witness ==
  /\ pc = "done"
  /\ info.archivos_generados = 1
  /\ info.archivos_omitidos = 1
  /\ Cardinality(EntradasObra) = 1

\* C8: on Done the flag excel_cambios_generado is true exactly when the
\* archive holds the cambios_global spreadsheet; the flag and the entry
\* occur only when a non-empty previous snapshot was read and the change
\* log has at least one row; without a previous snapshot there is no flag,
\* no entry and no change-log file.
C8_Theorem ==
  /\ pc = "done" => (info.excel_cambios_generado <=> EntradasCambios # {})
  /\ (info.excel_cambios_generado \/ EntradasCambios # {})
       => (tiene_maestro_anterior /\ hay_anterior /\ df_anterior.filas # <<>>
           /\ df_cambios_global # {})
  /\ ~hay_anterior
       => (~info.excel_cambios_generado /\ EntradasCambios = {} /\ "cambios" \notin disco)

\* a successful run whose archive holds the change log
C8_Witness ==
  /\ pc = "done"
  /\ info.excel_cambios_generado
  /\ EntradasCambios # {}
  /\ df_cambios_global # {}

C10_Original == pc = "failed" => "zip" \notin disco

(***************************************************************************)
(* Properties of the extractor                                             *)
(***************************************************************************)
EsExtraer == pc = "retorno" /\ entrada.fn = "procesar_maestro_individual"

CeldaConcepto(i) == Strip(entrada.df.filas[i].concepto)

CeldaCodigo(i) == Strip(entrada.df.filas[i].cod_os)

CeldaImporte(i) == limpiar_importe_raw(entrada.df.filas[i].valores[entrada.obra_col])

EnPorConcepto(i) == normalizar_texto(CeldaConcepto(i)) \in DOMAIN entrada.traductor_concepto

EnPorCodigo(i) == CeldaCodigo(i) \in DOMAIN entrada.traductor_cod_os

ClaveDeFila(i) == normalizar_texto(CeldaConcepto(i)) \o <<"_">> \o CeldaCodigo(i)

\* the range the row must get: byConcept first, byPayerCode as a fallback
RangoEsperado(i) ==
  IF EnPorConcepto(i)
  THEN <<entrada.traductor_concepto[normalizar_texto(CeldaConcepto(i))].cod_desde,
         entrada.traductor_concepto[normalizar_texto(CeldaConcepto(i))].cod_hasta>>
  ELSE <<entrada.traductor_cod_os[CeldaCodigo(i)].cod_desde,
         entrada.traductor_cod_os[CeldaCodigo(i)].cod_hasta>>

\* the rows that can write a record: positive amount and a valid range
Candidata(i) ==
  /\ Positivo(CeldaImporte(i))
  /\ EnPorConcepto(i) \/ EnPorCodigo(i)
  /\ validar_codigo(RangoEsperado(i)[1])
  /\ validar_codigo(RangoEsperado(i)[2])

\* the last candidate row of the key of row i
UltimaDeClave(i) ==
  \A j \in DOMAIN entrada.df.filas :
    (Candidata(j) /\ ClaveDeFila(j) = ClaveDeFila(i)) => j <= i

\* C11: every row with a positive amount whose normalized concept is a key
\* of byConcept gets the range of byConcept, whatever byPayerCode holds for
\* its code; a row whose concept is absent gets the range of byPayerCode;
\* a row found in neither index leaves no record.
C11_Theorem ==
  EsExtraer =>
    \A i \in DOMAIN entrada.df.filas :
      /\ (Candidata(i) /\ UltimaDeClave(i)) =>
           \E k \in DOMAIN salida :
             /\ salida[k].clave = ClaveDeFila(i)
             /\ <<salida[k].cod_desde, salida[k].cod_hasta>> = RangoEsperado(i)
      /\ (~EnPorConcepto(i) /\ ~EnPorCodigo(i)) =>
           \A k \in DOMAIN salida :
             ~(salida[k].concepto_original = CeldaConcepto(i)
               /\ salida[k].cod_os = CeldaCodigo(i))

\* a record was resolved through byConcept although byPayerCode holds
\* another range for the code of the row
C11_Witness ==
  /\ EsExtraer
  /\ \E i \in DOMAIN entrada.df.filas :
       /\ Candidata(i) /\ UltimaDeClave(i)
       /\ EnPorConcepto(i) /\ EnPorCodigo(i)
       /\ entrada.traductor_cod_os[CeldaCodigo(i)].cod_desde # RangoEsperado(i)[1]
       /\ \E k \in DOMAIN salida : salida[k].clave = ClaveDeFila(i)

\* C12: the keys of the result are the keys of the candidate rows, and the
\* record of each key is the one built from the last candidate row of that
\* key; rows with amount <= 0 or without a range change nothing.
C12_Theorem ==
  EsExtraer =>
    /\ Claves(salida) = {ClaveDeFila(i) : i \in {j \in DOMAIN entrada.df.filas : Candidata(j)}}
    /\ \A k \in DOMAIN salida :
         \E i \in DOMAIN entrada.df.filas :
           /\ Candidata(i) /\ UltimaDeClave(i)
           /\ ClaveDeFila(i) = salida[k].clave
           /\ salida[k].concepto_original = CeldaConcepto(i)
           /\ salida[k].cod_os = CeldaCodigo(i)
           /\ salida[k].valor = CeldaImporte(i)
           /\ <<salida[k].cod_desde, salida[k].cod_hasta>> = RangoEsperado(i)

\* a later row overwrote the record of an earlier row of the same key
C12_Witness ==
  /\ EsExtraer
  /\ \E i, j \in DOMAIN entrada.df.filas :
       /\ i < j
       /\ Candidata(i) /\ Candidata(j) /\ UltimaDeClave(j)
       /\ ClaveDeFila(i) = ClaveDeFila(j)
       /\ CeldaImporte(i) # CeldaImporte(j)
       /\ \E k \in DOMAIN salida :
            salida[k].clave = ClaveDeFila(j) /\ salida[k].valor = CeldaImporte(j)

(***************************************************************************)
(* Properties of the translation table loader                              *)
(***************************************************************************)
EsCargar == pc = "retorno" /\ entrada.fn = "cargar_traductor"

TablaLeida == entrada.leido.tabla

FilaValida(fila) ==
  validar_codigo(Strip(fila.cod_desde)) /\ validar_codigo(Strip(fila.cod_hasta))

\* the valid rows that supply an entry of byConcept under key k
FilasDeConcepto(k) ==
  {i \in DOMAIN TablaLeida :
     FilaValida(TablaLeida[i]) /\ k # <<>> /\ normalizar_texto(TablaLeida[i].concepto) = k}

\* the valid rows that supply an entry of byPayerCode under key k
FilasDeCodOs(k) ==
  {i \in DOMAIN TablaLeida :
     /\ FilaValida(TablaLeida[i])
     /\ k \notin CodOsNulos
     /\ Strip(TablaLeida[i].cod_os) = k}

Maximo(S) == CHOOSE i \in S : \A j \in S : j <= i

\* C13: when the load returns, every entry of the two indices is supplied
\* by a row whose two bounds are valid, and the result is the one of the
\* table without its invalid rows: an invalid row adds nothing, overwrites
\* nothing and does not make the load fail.
C13_Theorem ==
  (EsCargar /\ entrada.leido.estado = "ok" /\ TablaLeida # <<>>) =>
    /\ \A k \in DOMAIN salida.por_concepto :
         \E i \in FilasDeConcepto(k) : salida.por_concepto[k] = EntradaPorConcepto(TablaLeida[i])
    /\ \A k \in DOMAIN salida.por_cod_os :
         \E i \in FilasDeCodOs(k) : salida.por_cod_os[k] = EntradaPorCodigo(TablaLeida[i])
    /\ (\E i \in DOMAIN TablaLeida : FilaValida(TablaLeida[i])) =>
         salida = cargar_traductor_ruta(Lectura("ok", SelectSeq(TablaLeida, FilaValida)))
    /\ (\E i \in DOMAIN TablaLeida :
          FilasDeConcepto(normalizar_texto(TablaLeida[i].concepto)) # {})
         => salida.error = ""

\* a load returned although an invalid row followed a valid row of the same
\* concept
C13_Witness ==
  /\ EsCargar
  /\ salida.error = ""
  /\ \E i, j \in DOMAIN TablaLeida :
       /\ i < j
       /\ FilaValida(TablaLeida[i]) /\ ~FilaValida(TablaLeida[j])
       /\ normalizar_texto(TablaLeida[i].concepto) = normalizar_texto(TablaLeida[j].concepto)
       /\ salida.por_concepto[normalizar_texto(TablaLeida[i].concepto)]
            = EntradaPorConcepto(TablaLeida[i])

\* C14: every key of byConcept holds the entry of the last valid row with
\* that normalized concept, and every key of byPayerCode the entry of the
\* last valid row with that payer-code token.
C14_Theorem ==
  (EsCargar /\ salida.error = "") =>
    /\ \A k \in DOMAIN salida.por_concepto :
         /\ FilasDeConcepto(k) # {}
         /\ salida.por_concepto[k] = EntradaPorConcepto(TablaLeida[Maximo(FilasDeConcepto(k))])
    /\ \A k \in DOMAIN salida.por_cod_os :
         /\ FilasDeCodOs(k) # {}
         /\ salida.por_cod_os[k] = EntradaPorCodigo(TablaLeida[Maximo(FilasDeCodOs(k))])
    /\ \A i \in DOMAIN TablaLeida :
         FilaValida(TablaLeida[i]) =>
           /\ normalizar_texto(TablaLeida[i].concepto) # <<>>
                => normalizar_texto(TablaLeida[i].concepto) \in DOMAIN salida.por_concepto
           /\ Strip(TablaLeida[i].cod_os) \notin CodOsNulos
                => Strip(TablaLeida[i].cod_os) \in DOMAIN salida.por_cod_os

\* two valid rows with the same concept and code and different ranges
C14_Witness ==
  /\ EsCargar
  /\ salida.error = ""
  /\ \E i, j \in DOMAIN TablaLeida :
       /\ i < j
       /\ FilaValida(TablaLeida[i]) /\ FilaValida(TablaLeida[j])
       /\ normalizar_texto(TablaLeida[i].concepto) = normalizar_texto(TablaLeida[j].concepto)
       /\ normalizar_texto(TablaLeida[i].concepto) # <<>>
       /\ EntradaPorConcepto(TablaLeida[i]) # EntradaPorConcepto(TablaLeida[j])
       /\ salida.por_concepto[normalizar_texto(TablaLeida[j].concepto)]
            = EntradaPorConcepto(TablaLeida[j])

\* some row of the table supplies an entry to one of the indices
AlgunaEntrada ==
  \E i \in DOMAIN TablaLeida :
    /\ FilaValida(TablaLeida[i])
    /\ \/ normalizar_texto(TablaLeida[i].concepto) # <<>>
       \/ Strip(TablaLeida[i].cod_os) \notin CodOsNulos

\* C15: the load never returns two empty indices; on a table that was read
\* and has rows it fails with the no-valid-data error exactly when no row
\* supplied an entry, and returns otherwise.
C15_Theorem ==
  EsCargar =>
    /\ salida.error = "" => ~(salida.por_concepto = <<>> /\ salida.por_cod_os = <<>>)
    /\ (entrada.leido.estado = "ok" /\ TablaLeida # <<>>) =>
         /\ salida.error = "ValueError: traductor sin datos validos" <=> ~AlgunaEntrada
         /\ salida.error = "" <=> AlgunaEntrada
    /\ salida.error = "ValueError: traductor sin datos validos"
         => (entrada.leido.estado = "ok" /\ TablaLeida # <<>>)

\* a load that returned with an empty byConcept and a non-empty byPayerCode
C15_Witness ==
  /\ EsCargar
  /\ salida.error = ""
  /\ salida.por_concepto = <<>>
  /\ salida.por_cod_os # <<>>

(***************************************************************************)
(* Properties of the two classifications                                   *)
(***************************************************************************)
EsTipo == pc = "retorno" /\ entrada.fn = "determinar_tipo"

Importe14M == [ent |-> 14000000, mil |-> 0]
Importe40M == [ent |-> 40000000, mil |-> 0]
Importe44M == [ent |-> 44000000, mil |-> 0]

\* C16: the type is "M" exactly below 14,000,000, "C" exactly from
\* 40,000,000 to 44,000,000 inclusive, and "V" for every other amount.
C16_Theorem ==
  EsTipo =>
    /\ salida \in {"M", "C", "V"}
    /\ salida = "M" <=> Menor(entrada.valor, Importe14M)
    /\ salida = "C" <=> (~Menor(entrada.valor, Importe40M) /\ ~Menor(Importe44M, entrada.valor))
    /\ salida = "V" <=> \/ (~Menor(entrada.valor, Importe14M) /\ Menor(entrada.valor, Importe40M))
                        \/ Menor(Importe44M, entrada.valor)

\* the amount one thousandth above 44,000,000 was classified
C16_Witness ==
  /\ EsTipo
  /\ entrada.valor = [ent |-> 44000000, mil |-> 1]
  /\ salida = "V"

EsConcepto == pc = "retorno" /\ entrada.fn = "determinar_concepto"

\* the bound, read as an integer, lies in [42,000,000, 43,000,000]
EnRangoEspecial(cod) ==
  /\ cod # <<>>
  /\ ParseFloat(Strip(cod)).ok
  /\ ~ParseFloat(Strip(cod)).neg
  /\ ParseFloat(Strip(cod)).ent >= 42000000
  /\ ParseFloat(Strip(cod)).ent <= 43000000

ConceptoPorRegla ==
  IF EnRangoEspecial(entrada.cod_desde) \/ EnRangoEspecial(entrada.cod_hasta) THEN 1
  ELSE IF entrada.tipo_calculado = "M" THEN 4
  ELSE IF entrada.tipo_calculado = "V" THEN 1
  ELSE 4

MismoParActual(f, g) ==
  f.cod_os_actual = g.cod_os_actual /\ f.concepto_actual = g.concepto_actual

\* C18: an entry of the change log is marked "Repetido" exactly when another
\* entry of the log has the same (cod_os_actual, concepto_actual) pair, and
\* its mark is the empty text otherwise.
C18_Theorem ==
  pc \in {"diff_detectar", "diff_fin"} =>
    \A f \in df_cambios_global :
      /\ f.repetido \in {"Repetido", ""}
      /\ f.repetido = "Repetido" <=>
           \E g \in df_cambios_global : g # f /\ MismoParActual(f, g)

\* a log with two entries that share their pair and are both marked
C18_Witness ==
  /\ pc = "diff_fin"
  /\ \E f, g \in df_cambios_global :
       /\ f # g
       /\ MismoParActual(f, g)
       /\ f.repetido = "Repetido"
       /\ g.repetido = "Repetido"

(***************************************************************************)
(* Properties of the amount parser and of the code validation              *)
(***************************************************************************)
EsImporte == pc = "retorno" /\ entrada.fn = "limpiar_importe_raw"

\* C19: "1.234,56" and "1234,56" both give 1234.56, "$ 500" gives 500.0,
\* an absent, negative, zero or non-numeric input gives 0.0, and the result
\* is never negative.
C19_Original ==
  EsImporte =>
    /\ salida.ent >= 0 /\ salida.mil >= 0
    /\ entrada.v = <<"1", ".", "2", "3", "4", ",", "5", "6">>
         => salida = [ent |-> 1234, mil |-> 560]
    /\ entrada.v = <<"1", "2", "3", "4", ",", "5", "6">>
         => salida = [ent |-> 1234, mil |-> 560]
    /\ entrada.v = <<"$", " ", "5", "0", "0">> => salida = [ent |-> 500, mil |-> 0]
    /\ entrada.v \in {NaN, <<>>, TxtX, Txt0, <<"0", ".", "0">>, <<"-", "5">>} => salida = Cero

EsValidar == pc = "retorno" /\ entrada.fn = "validar_codigo"

\* the token, coerced float-then-int, is a strictly positive integer
EnteroPositivo(tok) ==
  /\ ParseFloat(tok).ok
  /\ ~ParseFloat(tok).neg
  /\ ParseFloat(tok).ent >= 1

\* C20: the result is false for a missing value and for the tokens "", "0",
\* "00000000", "nan", "#N/A", "N/A"; for every other token it is true exactly
\* when the token coerces to a strictly positive integer; "123" and
\* "00000123" are valid.
C20_Theorem ==
  EsValidar =>
    /\ salida \in BOOLEAN
    /\ Strip(entrada.cod) \in {<<>>, <<"0">>, <<"0", "0", "0", "0", "0", "0", "0", "0">>, NaN,
                               <<"#", "N", "/", "A">>, <<"N", "/", "A">>}
         => salida = FALSE
    /\ Strip(entrada.cod) \notin {<<>>, <<"0">>, <<"0", "0", "0", "0", "0", "0", "0", "0">>, NaN,
                                  <<"#", "N", "/", "A">>, <<"N", "/", "A">>}
         => (salida <=> EnteroPositivo(Strip(entrada.cod)))
    /\ entrada.cod \in {<<"1", "2", "3">>, <<"0", "0", "0", "0", "0", "1", "2", "3">>}
         => salida = TRUE

\* a token outside the list that truncates to zero was rejected
C20_Witness ==
  /\ EsValidar
  /\ entrada.cod = <<"0", ".", "5">>
  /\ salida = FALSE

(***************************************************************************)
(* Properties of the format of the range bounds                            *)
(***************************************************************************)
OchoDigitos(cod) == Len(cod) = 8 /\ TodosDigitos(cod)

\* C21: every cod_desde and cod_hasta stored in the two indices is a text of
\* exactly 8 decimal digits.
C21_Original ==
  (EsCargar /\ salida.error = "") =>
    /\ \A k \in DOMAIN salida.por_concepto :
         /\ OchoDigitos(salida.por_concepto[k].cod_desde)
         /\ OchoDigitos(salida.por_concepto[k].cod_hasta)
    /\ \A k \in DOMAIN salida.por_cod_os :
         /\ OchoDigitos(salida.por_cod_os[k].cod_desde)
         /\ OchoDigitos(salida.por_cod_os[k].cod_hasta)

(***************************************************************************)
(* Properties of the runs that read a previous snapshot                    *)
(***************************************************************************)
Terminado == pc \in {"done", "failed"}

\* the previous snapshot was read, is not empty and equals the current one
AnteriorIdentico == hay_anterior /\ tiene_maestro_anterior /\ df_anterior = df_actual

\* C22: a run whose previous snapshot is readable, non-empty and equal to the
\* current one, and whose archive could be opened, ends in done and reports
\* that no change log was generated.
C22_Original ==
  (Terminado /\ AnteriorIdentico /\ error # "OSError: zip") =>
    (pc = "done" /\ retorno /\ ~info.excel_cambios_generado)

\* the run is past the selection of the payer columns
TrasSeleccion ==
  \/ pc \in {"abrir_zip", "empaquetar"}
  \/ pc \in {"finally", "done", "failed"} /\ error \in {"", "OSError: zip", "ValueError: zip"}

\* C23: a run whose previous snapshot was not given, could not be read or was
\* read as an empty table never fails in the load of the previous snapshot,
\* selects every payer column of the current snapshot, writes no change log
\* and reports the mode "completo".
C23_Theorem ==
  /\ [][pc = "cargar_anterior" => (pc' = "extraer" /\ error' = "")]_vars
  /\ []((TrasSeleccion /\ ~tiene_maestro_anterior) =>
          /\ obras_a_procesar = Range(df_actual.obras)
          /\ info.modo_procesamiento = "completo"
          /\ ~info.excel_cambios_generado
          /\ ~cambios_temp_path
          /\ "cambios" \notin disco
          /\ \A i \in DOMAIN zf : zf[i].clase # "cambios")

\* a previous snapshot that was read as an empty table, in a finished run
C23_Witness ==
  /\ pc = "done"
  /\ hay_anterior /\ ~tiene_maestro_anterior /\ df_anterior.filas = <<>>
  /\ Cardinality(obras_a_procesar) = 2
  /\ info.modo_procesamiento = "completo"

\* C24: whenever the selection falls back to every payer column because no
\* previous record was extracted, the reported mode is "completo";
\* "inteligente" is reported only when previous records were compared.
C24_Original ==
  TrasSeleccion =>
    /\ datos_anterior_total = <<>> => info.modo_procesamiento = "completo"
    /\ info.modo_procesamiento = "inteligente" => datos_anterior_total # <<>>

(***************************************************************************)
(* Properties of the order of the steps                                    *)
(***************************************************************************)
Pasos ==
  <<"inicio", "cargar_traductor", "cargar_actual", "cargar_anterior", "extraer", "comparar",
    "seleccionar", "abrir_zip", "empaquetar", "finally", "done">>

\* q is the step that follows p in a run without failure
Siguiente(p, q) ==
  \/ \E i \in 1..(Len(Pasos) - 1) : p = Pasos[i] /\ q = Pasos[i + 1]
  \/ p = "empaquetar" /\ q = "empaquetar"

\* C25: the steps of a run happen in the order translator, current snapshot,
\* previous snapshot, extraction, comparison, selection, packaging, end; a
\* failure leads the run to the cleanup and to failed, and after a failure
\* nothing is loaded, extracted, compared, selected or written to the archive.
C25_Theorem ==
  /\ [][\/ error' = "" /\ Siguiente(pc, pc')
        \/ error = "" /\ error' # "" /\ pc' = "finally"
             /\ UNCHANGED <<datos_actual_total, datos_anterior_total, df_cambios_global,
                            obras_a_procesar, zf>>
        \/ error # "" /\ pc = "finally" /\ pc' = "failed"
             /\ UNCHANGED <<vars_diff, zf, info, error, retorno>>]_vars
  /\ [](pc = "failed" => (error # "" /\ ~retorno))
  /\ [](pc = "done" => (error = "" /\ retorno))

\* a run that failed after the selection, when the archive could not be opened
C25_Witness ==
  /\ pc = "failed"
  /\ error = "OSError: zip"
  /\ datos_actual_total # <<>>
  /\ obras_a_procesar # {}
  /\ zf = <<>>

(***************************************************************************)
(* Properties of the packaging loop                                        *)
(***************************************************************************)
\* the payer columns that have an entry in the archive
ObrasEnZip == {zf[i].obra : i \in {j \in DOMAIN zf : zf[j].clase = "obra"}}

\* C27: when a run ends in done, archivos_generados plus archivos_omitidos
\* equals the number of selected payer columns: each selected column was
\* either packaged or omitted, exactly once.
C27_Theorem ==
  /\ pc = "empaquetar" =>
       archivos_agregados + info.archivos_omitidos + Cardinality(pendientes)
         = Cardinality(obras_a_procesar)
  /\ pc = "done" =>
       /\ info.archivos_generados + info.archivos_omitidos = Cardinality(obras_a_procesar)
       /\ info.archivos_generados = Cardinality(ObrasEnZip)
       /\ ObrasEnZip \subseteq obras_a_procesar
       /\ Cardinality({i \in DOMAIN zf : zf[i].clase = "obra"}) = Cardinality(ObrasEnZip)

\* a finished run that packaged one selected column and omitted the other
C27_Witness ==
  /\ pc = "done"
  /\ Cardinality(obras_a_procesar) = 2
  /\ info.archivos_generados = 1
  /\ info.archivos_omitidos = 1

(***************************************************************************)
(* Properties of the marked entries of the change log                      *)
(***************************************************************************)
Eliminados == {f \in df_cambios_global : f.estado = "Eliminado"}

\* C30: an entry with state "Nuevo" or "Modificado" is never marked
\* "Repetido", no other entry sharing its (cod_os_actual, concepto_actual)
\* pair; an entry with state "Eliminado" has an empty cod_os_actual and an
\* empty concepto_actual, and it is marked exactly when the log holds two or
\* more "Eliminado" entries.
C30_Theorem ==
  pc \in {"diff_detectar", "diff_fin"} =>
    \A f \in df_cambios_global :
      /\ f.estado \in {"Nuevo", "Modificado", "Eliminado"}
      /\ f.estado \in {"Nuevo", "Modificado"} =>
           /\ f.repetido = ""
           /\ f.concepto_actual # <<>>
           /\ \A g \in df_cambios_global : g # f => ~MismoParActual(f, g)
      /\ f.estado = "Eliminado" =>
           /\ f.cod_os_actual = <<>> /\ f.concepto_actual = <<>>
           /\ f.repetido = "Repetido" <=> Cardinality(Eliminados) >= 2

\* a log with one "Modificado" entry and a single "Eliminado" entry, neither
\* of them marked
C30_Witness ==
  /\ pc = "diff_fin"
  /\ Cardinality(Eliminados) = 1
  /\ \E f \in df_cambios_global : f.estado = "Modificado" /\ f.repetido = ""
  /\ \A f \in Eliminados : f.repetido = ""

(***************************************************************************)
(* Properties of the record key                                            *)
(***************************************************************************)
\* the (normalized concept, payer code) pair of row i
ParDeFila(i) == <<normalizar_texto(CeldaConcepto(i)), CeldaCodigo(i)>>

\* C29: the key of a record is distinct for distinct (normalized concept,
\* payer code) pairs: two candidate rows write the same key only when they
\* have the same pair, and the result holds one record per pair.
C29_Original ==
  EsExtraer =>
    /\ \A i, j \in DOMAIN entrada.df.filas :
         (Candidata(i) /\ Candidata(j) /\ ClaveDeFila(i) = ClaveDeFila(j)) =>
           ParDeFila(i) = ParDeFila(j)
    /\ Len(salida) =
         Cardinality({ParDeFila(i) : i \in {j \in DOMAIN entrada.df.filas : Candidata(j)}})

(***************************************************************************)
(* Properties of the entry names                                           *)
(***************************************************************************)
\* C28: within one run two distinct payer columns are never written to the
\* archive under the same entry name.
C28_Original ==
  pc \in {"empaquetar", "finally", "done", "failed"} =>
    \A i, j \in DOMAIN zf :
      (zf[i].clase = "obra" /\ zf[j].clase = "obra" /\ zf[i].obra # zf[j].obra) =>
        zf[i].nombre # zf[j].nombre

(***************************************************************************)
(* Properties of two runs that overlap in time                             *)
(***************************************************************************)
\* the entries of the archive of run r when it runs alone
EntradasSolo(r) ==
  (IF corridas[r].cambia THEN <<EntradaDe("cambios", r)>> ELSE <<>>)
    \o <<EntradaDe("obra", r)>>

\* C26: for any interleaving of the steps of two runs, each run ends in done
\* and returns the archive and the summary it returns when it runs alone,
\* and the change log a run has written is still its own when the run copies
\* it into its archive.
C26_Original ==
  pc = "dos" =>
    \A r \in Corridas :
      /\ corridas[r].pc # "failed"
      /\ corridas[r].pc \in {"finally", "done"} =>
           /\ corridas[r].devuelto = Archivo(r, EntradasSolo(r))
           /\ corridas[r].excel_cambios_generado = corridas[r].cambia
      /\ (corridas[r].pc = "abrir_zip" /\ corridas[r].cambios_temp_path # <<>>) =>
           output_dir[corridas[r].cambios_temp_path] = Archivo(r, <<>>)

====
